---- MODULE Spec2Model ----
(***************************************************************************)
(* A model of the Foreman API client of terraform-provider-foreman:        *)
(* the JSON codecs of the entity models (Host, Hostgroup, OperatingSystem) *)
(* and the client operations that send them (CreateHost, UpdateHost,       *)
(* SendPowerCommand, Create/Update of Hostgroup and OperatingSystem).      *)
(*                                                                         *)
(* Go strings are sequences of one-character strings, so that formatting   *)
(* (strconv.Itoa) and parsing (strconv.Atoi) are computed, not assumed.    *)
(* JSON values are tagged records; a JSON object is a function from its    *)
(* keys to JSON values.                                                    *)
(***************************************************************************)
EXTENDS Integers, Sequences, FiniteSets, TLC

\* ------------------------------------------------------------------------
\* Bounds of the model
\* ------------------------------------------------------------------------

\* Largest retry budget a caller passes (budgets range over -1..MaxRetry).
MaxRetry == 3

\* Largest foreign-key value of the enumerated entities: {0, 1, MaxFK}.
MaxFK == 9999
MaxSubtotal == 2

\* ------------------------------------------------------------------------
\* Go strings
\* ------------------------------------------------------------------------

Digits == <<"0", "1", "2", "3", "4", "5", "6", "7", "8", "9">>

DigitValue(c) == (CHOOSE i \in 1..10 : Digits[i] = c) - 1

IsDigit(c) == \E i \in 1..10 : Digits[i] = c

RECURSIVE ItoaNat(_)
ItoaNat(n) == IF n < 10 THEN <<Digits[n + 1]>>
              ELSE ItoaNat(n \div 10) \o <<Digits[(n % 10) + 1]>>

\* strconv.Itoa / the %d verb of fmt.Sprintf
Itoa(n) == IF n < 0 THEN <<"-">> \o ItoaNat(0 - n) ELSE ItoaNat(n)

RECURSIVE AtoiNat(_)
AtoiNat(s) == IF s = <<>> THEN 0
              ELSE 10 * AtoiNat(SubSeq(s, 1, Len(s) - 1)) + DigitValue(s[Len(s)])

\* strconv.Atoi: [ok, n]; n is 0 when the string is no decimal integer
Atoi(s) ==
    LET neg  == s # <<>> /\ s[1] = "-"
        body == IF neg THEN Tail(s) ELSE s
        ok   == body # <<>> /\ \A i \in 1..Len(body) : IsDigit(body[i])
    IN  IF ok THEN [ok |-> TRUE, n |-> IF neg THEN 0 - AtoiNat(body) ELSE AtoiNat(body)]
        ELSE [ok |-> FALSE, n |-> 0]

\* strings.Index: the first position of sub in s, 0 when absent
IndexOf(s, sub) ==
    LET hits == {i \in 1..(Len(s) - Len(sub) + 1) : SubSeq(s, i, i + Len(sub) - 1) = sub}
    IN  IF hits = {} THEN 0 ELSE CHOOSE i \in hits : \A j \in hits : i <= j

\* strings.Contains
Contains(s, sub) == IndexOf(s, sub) # 0

\* strings.Replace(s, old, "", 1)
RemoveFirst(s, old) ==
    LET i == IndexOf(s, old)
    IN  IF i = 0 THEN s
        ELSE SubSeq(s, 1, i - 1) \o SubSeq(s, i + Len(old), Len(s))

\* ------------------------------------------------------------------------
\* JSON values
\* ------------------------------------------------------------------------

JNull    == [t |-> "null"]
JStr(s)  == [t |-> "str", s |-> s]
JNum(n)  == [t |-> "num", n |-> n]
JBool(b) == [t |-> "bool", b |-> b]
JArr(a)  == [t |-> "arr", a |-> a]
JObj(o)  == [t |-> "obj", o |-> o]

EmptyObj == [k \in {} |-> JNull]

FieldAlways(cond, k, v) == k :> v

\* One key of an object being built, present only when cond holds
\* (the omitempty option of a struct tag, or an if around a map store).
Field(cond, k, v) == IF cond THEN k :> v ELSE EmptyObj

\* m[k] of a Go map[string]interface{}: nil for a missing key.  A JSON null
\* decodes to nil as well.
Get(o, k) == IF k \in DOMAIN o THEN o[k] ELSE JNull

HasKey(j, k) == j.t = "obj" /\ k \in DOMAIN j.o

\* v.(string) and v.(bool) with the zero value when the assertion fails
AsString(v, dflt) == IF v.t = "str" THEN v.s ELSE dflt
AsBool(v, dflt) == IF v.t = "bool" THEN v.b ELSE dflt


\* Decoding one JSON value into a typed Go struct field with encoding/json:
\* null (or a missing key) leaves the zero value, a value of the field's
\* JSON type is stored, anything else is an UnmarshalTypeError.
IntFieldOk(v) == v.t \in {"null", "num"}
IntField(v) == IF v.t = "num" THEN v.n ELSE 0
StrFieldOk(v) == v.t \in {"null", "str"}
StrField(v) == IF v.t = "str" THEN v.s ELSE <<>>
BoolFieldOk(v) == v.t \in {"null", "bool"}
BoolField(v) == IF v.t = "bool" THEN v.b ELSE FALSE
ObjFieldOk(v) == v.t \in {"null", "obj"}
ObjField(v) == IF v.t = "obj" THEN v.o ELSE EmptyObj

\* The members of a JSON document decoded into a struct or a map: an object
\* gives its members, null gives none (json.Unmarshal of null is a no-op).
StructOk(b) == b.t \in {"null", "obj"}
Members(b) == IF b.t = "obj" THEN b.o ELSE EmptyObj

\* ------------------------------------------------------------------------
\* Shared helpers of the api package
\* ------------------------------------------------------------------------

\* intIdToJSONString: the wire value of a foreign key, "" for an unset id.
intIdToJSONString(id) == IF id = 0 THEN JStr(<<>>) ELSE JStr(Itoa(id))

\* unmarshalInteger: the integer of a decoded interface{} value; a number or
\* a numeric string gives its value, anything else (nil included) gives 0.
unmarshalInteger(v) ==
    CASE v.t = "num" -> v.n
      [] v.t = "str" -> Atoi(v.s).n
      [] OTHER -> 0

\* WrapJson(name, item): item marshalled under the single top-level key name.
WrapJson(name, item) == JObj(name :> item)

\* ForemanObject, the base record {Id, Name}, decoded with its struct tags.
ForemanObjectOk(b) ==
    StructOk(b) /\ IntFieldOk(Get(Members(b), "id")) /\ StrFieldOk(Get(Members(b), "name"))

ForemanObjectId(b) == IntField(Get(Members(b), "id"))

ForemanObjectName(b) == StrField(Get(Members(b), "name"))

\* ForemanKVParameter {Name, Value}
KVParameterMarshal(p) == JObj(("name" :> JStr(p.Name)) @@ ("value" :> JStr(p.Value)))

KVParameterOk(b) ==
    StructOk(b) /\ StrFieldOk(Get(Members(b), "name")) /\ StrFieldOk(Get(Members(b), "value"))

KVParameterUnmarshal(b) ==
    [Name |-> StrField(Get(Members(b), "name")), Value |-> StrField(Get(Members(b), "value"))]

\* A []T field decoded from the key's value: null or a missing key gives the
\* nil slice, an array decodes element by element.
IsSlice(v) == v.t \in {"null", "arr"}
Elements(v) == IF v.t = "arr" THEN v.a ELSE <<>>

KVParametersOk(v) ==
    IsSlice(v) /\ \A i \in 1..Len(Elements(v)) : KVParameterOk(Elements(v)[i])

KVParametersUnmarshal(v) ==
    [i \in 1..Len(Elements(v)) |-> KVParameterUnmarshal(Elements(v)[i])]

KVParametersMarshal(ps) == JArr([i \in 1..Len(ps) |-> KVParameterMarshal(ps[i])])

ForemanObjectsOk(v) ==
    IsSlice(v) /\ \A i \in 1..Len(Elements(v)) : ForemanObjectOk(Elements(v)[i])

ForemanObjectsUnmarshal(v) ==
    [i \in 1..Len(Elements(v)) |->
        [Id |-> ForemanObjectId(Elements(v)[i]), Name |-> ForemanObjectName(Elements(v)[i])]]

\* json.Marshal of a []int
IdsMarshal(ids) == JArr([i \in 1..Len(ids) |-> JNum(ids[i])])

\* ------------------------------------------------------------------------
\* ForemanInterfacesAttribute (host.go)
\* ------------------------------------------------------------------------

InterfaceMarshalDestroyAlways(ia) ==
    JObj(("identifier" :> JStr(ia.Identifier)) @@ ("_destroy" :> JBool(ia.Destroy)))

\* json.Marshal of a ForemanInterfacesAttribute by its struct tags.
InterfaceMarshal(ia) ==
    JObj(    Field(ia.Id # 0, "id", JNum(ia.Id))
          @@ Field(ia.SubnetId # 0, "subnet_id", JNum(ia.SubnetId))
          @@ ("identifier" :> JStr(ia.Identifier))
          @@ ("name" :> JStr(ia.Name))
          @@ Field(ia.Username # <<>>, "username", JStr(ia.Username))
          @@ Field(ia.Password # <<>>, "password", JStr(ia.Password))
          @@ ("managed" :> JBool(ia.Managed))
          @@ ("provision" :> JBool(ia.Provision))
          @@ ("virtual" :> JBool(ia.Virtual))
          @@ ("primary" :> JBool(ia.Primary))
          @@ ("ip" :> JStr(ia.IP))
          @@ ("mac" :> JStr(ia.MAC))
          @@ ("type" :> JStr(ia.Type))
          @@ ("provider" :> JStr(ia.Provider))
          @@ Field(ia.AttachedDevices # <<>>, "attached_devices", JStr(ia.AttachedDevices))
          @@ Field(ia.AttachedTo # <<>>, "attached_to", JStr(ia.AttachedTo))
          @@ Field(DOMAIN ia.ComputeAttributes # {}, "compute_attributes",
                   JObj(ia.ComputeAttributes))
          @@ Field(ia.Destroy, "_destroy", JBool(ia.Destroy)) )

InterfaceIntKeys == {"id", "subnet_id"}
InterfaceStrKeys == {"identifier", "name", "username", "password", "ip", "mac", "type",
                     "provider", "attached_devices", "attached_to"}
InterfaceBoolKeys == {"managed", "provision", "virtual", "primary", "_destroy"}

InterfaceOk(b) ==
    /\ StructOk(b)
    /\ \A k \in InterfaceIntKeys : IntFieldOk(Get(Members(b), k))
    /\ \A k \in InterfaceStrKeys : StrFieldOk(Get(Members(b), k))
    /\ \A k \in InterfaceBoolKeys : BoolFieldOk(Get(Members(b), k))
    /\ ObjFieldOk(Get(Members(b), "compute_attributes"))

\* json.Unmarshal into a ForemanInterfacesAttribute by its struct tags.
InterfaceUnmarshal(b) ==
    LET o == Members(b)
    IN  [ Id                |-> IntField(Get(o, "id")),
          SubnetId          |-> IntField(Get(o, "subnet_id")),
          Identifier        |-> StrField(Get(o, "identifier")),
          Name              |-> StrField(Get(o, "name")),
          Username          |-> StrField(Get(o, "username")),
          Password          |-> StrField(Get(o, "password")),
          Managed           |-> BoolField(Get(o, "managed")),
          Provision         |-> BoolField(Get(o, "provision")),
          Virtual           |-> BoolField(Get(o, "virtual")),
          Primary           |-> BoolField(Get(o, "primary")),
          IP                |-> StrField(Get(o, "ip")),
          MAC               |-> StrField(Get(o, "mac")),
          Type              |-> StrField(Get(o, "type")),
          Provider          |-> StrField(Get(o, "provider")),
          AttachedDevices   |-> StrField(Get(o, "attached_devices")),
          AttachedTo        |-> StrField(Get(o, "attached_to")),
          ComputeAttributes |-> ObjField(Get(o, "compute_attributes")),
          Destroy           |-> BoolField(Get(o, "_destroy")) ]

InterfacesOk(v) ==
    IsSlice(v) /\ \A i \in 1..Len(Elements(v)) : InterfaceOk(Elements(v)[i])

InterfacesUnmarshal(v) ==
    [i \in 1..Len(Elements(v)) |-> InterfaceUnmarshal(Elements(v)[i])]

InterfacesMarshal(ifs) == JArr([i \in 1..Len(ifs) |-> InterfaceMarshal(ifs[i])])

\* ------------------------------------------------------------------------
\* ForemanHost (host.go)
\* ------------------------------------------------------------------------

\* var h ForemanHost: the zero value
ZeroHost ==
    [ Id |-> 0, Name |-> <<>>, Build |-> FALSE, Method |-> <<>>, DomainId |-> 0,
      DomainName |-> <<>>, EnvironmentId |-> 0, HostgroupId |-> 0,
      OperatingSystemId |-> 0, MediumId |-> 0, ImageId |-> 0, EnableBMC |-> FALSE,
      BMCSuccess |-> FALSE, Comment |-> <<>>, InterfacesAttributes |-> <<>>,
      HostParameters |-> <<>>, ComputeResourceId |-> 0, ComputeProfileId |-> 0 ]

\* The wire key each foreign key of a host is written under, by field.
HostForeignKeys ==
    [ DomainId |-> "domain_id", OperatingSystemId |-> "operatingsystem_id",
      MediumId |-> "medium_id", ImageId |-> "image_id", HostgroupId |-> "hostgroup_id",
      EnvironmentId |-> "environment_id", ComputeResourceId |-> "compute_resource_id",
      ComputeProfileId |-> "compute_profile_id" ]

\* ForemanHost.MarshalJSON
HostMarshalJSON(fh) ==
    JObj(    ("name" :> JStr(fh.Name))
          @@ ("comment" :> JStr(fh.Comment))
          @@ ("build" :> JBool(fh.Build))
          @@ ("provision_method" :> JStr(fh.Method))
          @@ ("domain_id" :> intIdToJSONString(fh.DomainId))
          @@ ("operatingsystem_id" :> intIdToJSONString(fh.OperatingSystemId))
          @@ ("medium_id" :> intIdToJSONString(fh.MediumId))
          @@ ("image_id" :> intIdToJSONString(fh.ImageId))
          @@ ("hostgroup_id" :> intIdToJSONString(fh.HostgroupId))
          @@ ("environment_id" :> intIdToJSONString(fh.EnvironmentId))
          @@ ("compute_resource_id" :> intIdToJSONString(fh.ComputeResourceId))
          @@ ("compute_profile_id" :> intIdToJSONString(fh.ComputeProfileId))
          @@ Field(Len(fh.InterfacesAttributes) > 0, "interfaces_attributes",
                   InterfacesMarshal(fh.InterfacesAttributes))
          @@ Field(Len(fh.HostParameters) > 0, "host_parameters_attributes",
                   KVParametersMarshal(fh.HostParameters)) )

\* The decode steps of ForemanHost.UnmarshalJSON that can fail: the base
\* object, foremanHostJSON, foremanHostParameterJSON and the generic map.
HostUnmarshalOk(b) ==
    /\ ForemanObjectOk(b)
    /\ InterfacesOk(Get(Members(b), "interfaces"))
    /\ KVParametersOk(Get(Members(b), "host_parameters_attributes"))

\* The Name fix-up at the end of ForemanHost.UnmarshalJSON: Foreman returns
\* the FQDN as the name.
HostStripDomain(name, domainName) ==
    IF domainName # <<>> /\ Contains(name, domainName)
    THEN RemoveFirst(name, <<".">> \o domainName)
    ELSE name

\* ForemanHost.UnmarshalJSON applied to the receiver fh, when no step fails.
HostUnmarshalJSON(fh, b) ==
    LET fhMap == Members(b)
        domainName == AsString(Get(fhMap, "domain_name"), <<>>)
    IN  [ fh EXCEPT
            !.Id = ForemanObjectId(b),
            !.InterfacesAttributes = InterfacesUnmarshal(Get(fhMap, "interfaces")),
            !.HostParameters =
                KVParametersUnmarshal(Get(fhMap, "host_parameters_attributes")),
            !.Build = AsBool(Get(fhMap, "build"), FALSE),
            !.Method = AsString(Get(fhMap, "method"), <<"b", "u", "i", "l", "d">>),
            !.Comment = AsString(Get(fhMap, "comment"), <<>>),
            !.DomainName = domainName,
            !.DomainId = unmarshalInteger(Get(fhMap, "domain_id")),
            !.EnvironmentId = unmarshalInteger(Get(fhMap, "environment_id")),
            !.HostgroupId = unmarshalInteger(Get(fhMap, "hostgroup_id")),
            !.OperatingSystemId = unmarshalInteger(Get(fhMap, "operatingsystem_id")),
            !.MediumId = unmarshalInteger(Get(fhMap, "medium_id")),
            !.ComputeResourceId = unmarshalInteger(Get(fhMap, "compute_resource_id")),
            !.ComputeProfileId = unmarshalInteger(Get(fhMap, "compute_profile_id")),
            !.Name = HostStripDomain(ForemanObjectName(b), domainName) ]

\* ------------------------------------------------------------------------
\* ForemanHostgroup (hostgroup.go)
\* ------------------------------------------------------------------------

ZeroHostgroup ==
    [ Id |-> 0, Name |-> <<>>, Title |-> <<>>, RootPassword |-> <<>>,
      ArchitectureId |-> 0, ComputeProfileId |-> 0, DomainId |-> 0, EnvironmentId |-> 0,
      MediumId |-> 0, OperatingSystemId |-> 0, ParentId |-> 0, PartitionTableId |-> 0,
      PuppetCAProxyId |-> 0, PuppetProxyId |-> 0, RealmId |-> 0, SubnetId |-> 0,
      PXELoader |-> <<>>, HostGroupParameters |-> <<>> ]

\* The wire key each foreign key of a hostgroup is written under, by field.
HostgroupForeignKeys ==
    [ ArchitectureId |-> "architecture_id", ComputeProfileId |-> "compute_profile_id",
      DomainId |-> "domain_id", EnvironmentId |-> "environment_id",
      MediumId |-> "medium_id", OperatingSystemId |-> "operatingsystem_id",
      ParentId |-> "parent_id", PartitionTableId |-> "ptable_id",
      PuppetCAProxyId |-> "puppet_ca_proxy_id", PuppetProxyId |-> "puppet_proxy_id",
      RealmId |-> "realm_id", SubnetId |-> "subnet_id" ]

\* ForemanHostgroup.MarshalJSON
HostgroupMarshalJSON(fh) ==
    JObj(    ("name" :> JStr(fh.Name))
          @@ ("root_pass" :> JStr(fh.RootPassword))
          @@ ("pxe_loader" :> JStr(fh.PXELoader))
          @@ ("architecture_id" :> intIdToJSONString(fh.ArchitectureId))
          @@ ("compute_profile_id" :> intIdToJSONString(fh.ComputeProfileId))
          @@ ("domain_id" :> intIdToJSONString(fh.DomainId))
          @@ ("environment_id" :> intIdToJSONString(fh.EnvironmentId))
          @@ ("medium_id" :> intIdToJSONString(fh.MediumId))
          @@ ("operatingsystem_id" :> intIdToJSONString(fh.OperatingSystemId))
          @@ ("parent_id" :> intIdToJSONString(fh.ParentId))
          @@ ("ptable_id" :> intIdToJSONString(fh.PartitionTableId))
          @@ ("puppet_ca_proxy_id" :> intIdToJSONString(fh.PuppetCAProxyId))
          @@ ("puppet_proxy_id" :> intIdToJSONString(fh.PuppetProxyId))
          @@ ("realm_id" :> intIdToJSONString(fh.RealmId))
          @@ ("subnet_id" :> intIdToJSONString(fh.SubnetId))
          @@ Field(Len(fh.HostGroupParameters) > 0, "group_parameters_attributes",
                   KVParametersMarshal(fh.HostGroupParameters)) )

HostgroupUnmarshalOk(b) ==
    /\ ForemanObjectOk(b)
    /\ KVParametersOk(Get(Members(b), "group_parameters_attributes"))

\* ForemanHostgroup.UnmarshalJSON applied to the receiver fh, when no step fails.
HostgroupUnmarshalJSON(fh, b) ==
    LET fhMap == Members(b)
    IN  [ fh EXCEPT
            !.Id = ForemanObjectId(b),
            !.Name = ForemanObjectName(b),
            !.HostGroupParameters =
                KVParametersUnmarshal(Get(fhMap, "group_parameters_attributes")),
            !.RootPassword = AsString(Get(fhMap, "root_password"), <<>>),
            !.PXELoader = AsString(Get(fhMap, "pxe_loader"), <<>>),
            !.ArchitectureId = unmarshalInteger(Get(fhMap, "architecture_id")),
            !.ComputeProfileId = unmarshalInteger(Get(fhMap, "compute_profile_id")),
            !.DomainId = unmarshalInteger(Get(fhMap, "domain_id")),
            !.EnvironmentId = unmarshalInteger(Get(fhMap, "environment_id")),
            !.MediumId = unmarshalInteger(Get(fhMap, "medium_id")),
            !.OperatingSystemId = unmarshalInteger(Get(fhMap, "operatingsystem_id")),
            !.ParentId = unmarshalInteger(Get(fhMap, "parent_id")),
            !.PartitionTableId = unmarshalInteger(Get(fhMap, "ptable_id")),
            !.PuppetCAProxyId = unmarshalInteger(Get(fhMap, "puppet_ca_proxy_id")),
            !.PuppetProxyId = unmarshalInteger(Get(fhMap, "puppet_proxy_id")),
            !.RealmId = unmarshalInteger(Get(fhMap, "realm_id")),
            !.SubnetId = unmarshalInteger(Get(fhMap, "subnet_id")) ]

\* ------------------------------------------------------------------------
\* ForemanOperatingSystem (operatingsystem.go)
\* ------------------------------------------------------------------------

ZeroOperatingSystem ==
    [ Id |-> 0, Name |-> <<>>, Title |-> <<>>, Major |-> <<>>, Minor |-> <<>>,
      Description |-> <<>>, Family |-> <<>>, ReleaseName |-> <<>>, PasswordHash |-> <<>>,
      ProvisioningTemplateIds |-> <<>>, MediumIds |-> <<>>, ArchitectureIds |-> <<>>,
      PartitiontableIds |-> <<>> ]

\* The type declares no MarshalJSON: json.Marshal writes the struct by its
\* tags, the embedded base object's id and name first.
OperatingSystemMarshal(o) ==
    JObj(    ("id" :> JNum(o.Id))
          @@ ("name" :> JStr(o.Name))
          @@ ("title" :> JStr(o.Title))
          @@ ("major" :> JStr(o.Major))
          @@ ("minor" :> JStr(o.Minor))
          @@ ("description" :> JStr(o.Description))
          @@ ("family" :> JStr(o.Family))
          @@ ("release_name" :> JStr(o.ReleaseName))
          @@ ("password_hash" :> JStr(o.PasswordHash))
          @@ Field(Len(o.ProvisioningTemplateIds) > 0, "provisioning_template_ids",
                   IdsMarshal(o.ProvisioningTemplateIds))
          @@ Field(Len(o.MediumIds) > 0, "medium_ids", IdsMarshal(o.MediumIds))
          @@ Field(Len(o.ArchitectureIds) > 0, "architecture_ids",
                   IdsMarshal(o.ArchitectureIds))
          @@ Field(Len(o.PartitiontableIds) > 0, "ptable_ids",
                   IdsMarshal(o.PartitiontableIds)) )

\* foremanObjectArrayToIdIntArray: the ids of a list of base objects, in order.
foremanObjectArrayToIdIntArray(objs) == [i \in 1..Len(objs) |-> objs[i].Id]

OsRespKeys == {"provisioning_templates", "media", "architectures", "ptables"}

OperatingSystemUnmarshalOk(b) ==
    /\ ForemanObjectOk(b)
    /\ \A k \in OsRespKeys : ForemanObjectsOk(Get(Members(b), k))

OsIdListReversed(b, k) ==
    LET ids == foremanObjectArrayToIdIntArray(ForemanObjectsUnmarshal(Get(Members(b), k)))
    IN  [i \in 1..Len(ids) |-> ids[Len(ids) + 1 - i]]

OsIdList(b, k) ==
    foremanObjectArrayToIdIntArray(ForemanObjectsUnmarshal(Get(Members(b), k)))

\* ForemanOperatingSystem.UnmarshalJSON applied to the receiver o, when no step fails.
OperatingSystemUnmarshalJSON(o, b) ==
    LET foMap == Members(b)
    IN  [ o EXCEPT
            !.Id = ForemanObjectId(b),
            !.Name = ForemanObjectName(b),
            !.ProvisioningTemplateIds = OsIdList(b, "provisioning_templates"),
            !.ArchitectureIds = OsIdList(b, "architectures"),
            !.MediumIds = OsIdList(b, "media"),
            !.PartitiontableIds = OsIdList(b, "ptables"),
            !.Title = AsString(Get(foMap, "title"), <<>>),
            !.Major = AsString(Get(foMap, "major"), <<>>),
            !.Minor = AsString(Get(foMap, "minor"), <<>>),
            !.Description = AsString(Get(foMap, "description"), <<>>),
            !.Family = AsString(Get(foMap, "family"), <<>>),
            !.ReleaseName = AsString(Get(foMap, "release_name"), <<>>),
            !.PasswordHash = AsString(Get(foMap, "password_hash"), <<>>) ]

\* ------------------------------------------------------------------------
\* ForemanCommonParameter (common_parameter.go)
\* ------------------------------------------------------------------------

ZeroForemanObject == [Id |-> 0, Name |-> <<>>]

\* The struct embeds the base object and declares a Name of its own, which
\* hides the base object's Name from encoding/json and from d.Name.
ZeroCommonParameter == [ForemanObject |-> ZeroForemanObject, Name |-> <<>>, Value |-> <<>>]

\* No MarshalJSON: written by the struct tags, the promoted id first.
CommonParameterMarshal(d) ==
    JObj(    ("id" :> JNum(d.ForemanObject.Id))
          @@ ("name" :> JStr(d.Name))
          @@ ("value" :> JStr(d.Value)) )

CommonParameterUnmarshalOk(b) ==
    /\ StructOk(b)
    /\ IntFieldOk(Get(Members(b), "id"))
    /\ StrFieldOk(Get(Members(b), "name"))
    /\ StrFieldOk(Get(Members(b), "value"))

\* No UnmarshalJSON: a key that is present is stored, the other fields of
\* the target keep their values.
CommonParameterUnmarshal(d, b) ==
    LET o == Members(b)
    IN  [ ForemanObject |->
              [ Id   |-> IF Get(o, "id").t = "num" THEN Get(o, "id").n
                         ELSE d.ForemanObject.Id,
                Name |-> d.ForemanObject.Name ],
          Name  |-> IF Get(o, "name").t = "str" THEN Get(o, "name").s ELSE d.Name,
          Value |-> IF Get(o, "value").t = "str" THEN Get(o, "value").s ELSE d.Value ]

\* d.Id, d.Name, d.Value = x.Id, x.Name, x.Value: what Create, Read and
\* Update of a common parameter store into the caller's entity.
CommonParameterAssign(d, x) ==
    [ ForemanObject |-> [Id |-> x.ForemanObject.Id, Name |-> d.ForemanObject.Name],
      Name |-> x.Name, Value |-> x.Value ]

\* ------------------------------------------------------------------------
\* ForemanOrganization (organization.go), ForemanLocation (location.go)
\* ------------------------------------------------------------------------

\* The organization embeds the base object under the tag "foreman_object"
\* and declares Name, Title and Description of its own; fk.Id is the base
\* object's Id, fk.Name the organization's own Name.
ZeroOrganization ==
    [ForemanObject |-> ZeroForemanObject, Name |-> <<>>, Title |-> <<>>, Description |-> <<>>]

OrganizationUnmarshalOk(b) ==
    /\ StructOk(b)
    /\ ForemanObjectOk(Get(Members(b), "foreman_object"))
    /\ \A k \in {"name", "title", "description"} : StrFieldOk(Get(Members(b), k))

OrganizationUnmarshal(t, b) ==
    LET o  == Members(b)
        fo == Members(Get(o, "foreman_object"))
        str(k, old) == IF Get(o, k).t = "str" THEN Get(o, k).s ELSE old
    IN  [ ForemanObject |->
              [ Id   |-> IF Get(fo, "id").t = "num" THEN Get(fo, "id").n
                         ELSE t.ForemanObject.Id,
                Name |-> IF Get(fo, "name").t = "str" THEN Get(fo, "name").s
                         ELSE t.ForemanObject.Name ],
          Name        |-> str("name", t.Name),
          Title       |-> str("title", t.Title),
          Description |-> str("description", t.Description) ]

\* The location is the base object alone.
ZeroLocation == [ForemanObject |-> ZeroForemanObject]

LocationUnmarshalOk(b) == ForemanObjectOk(b)

LocationUnmarshal(t, b) ==
    LET o == Members(b)
    IN  [ ForemanObject |->
              [ Id   |-> IF Get(o, "id").t = "num" THEN Get(o, "id").n
                         ELSE t.ForemanObject.Id,
                Name |-> IF Get(o, "name").t = "str" THEN Get(o, "name").s
                         ELSE t.ForemanObject.Name ] ]

\* ------------------------------------------------------------------------
\* Power and boot commands (host.go)
\* ------------------------------------------------------------------------

HostEndpointPrefix == "hosts"
PowerSuffix == "power"
BootSuffix == "boot"
HostgroupEndpointPrefix == "hostgroups"
OperatingSystemEndpointPrefix == "operatingsystems"
OrganizationEndpointPrefix == "organizations"
LocationEndpointPrefix == "locations"

\* The prefix of the common parameters is declared with its leading slash.
CommonParameterEndpointPrefix == <<"/", "common_parameters">>

PowerOn == <<"o", "n">>
PowerOff == <<"o", "f", "f">>
BootPxe == <<"p", "x", "e">>
BootDisk == <<"d", "i", "s", "k">>

\* A Go interface{} value is a record whose field dyn names its dynamic type.
Power(action) == [dyn |-> "Power", PowerAction |-> action, Power |-> FALSE]
BMCBoot(device) ==
    [dyn |-> "BMCBoot", Device |-> device, Boot |-> [Action |-> <<>>, Result |-> FALSE]]

\* json.Marshal(cmd): a Power or a BMCBoot (or a pointer to one) is written
\* by its struct tags, any other value as itself.  The nested boot struct is
\* never empty for omitempty, so its key is always written.
CommandMarshal(cmd) ==
    CASE cmd.dyn \in {"Power", "*Power"} ->
            JObj(    Field(cmd.PowerAction # <<>>, "power_action", JStr(cmd.PowerAction))
                  @@ Field(cmd.Power, "power", JBool(cmd.Power)) )
      [] cmd.dyn = "BMCBoot" ->
            JObj(    Field(cmd.Device # <<>>, "device", JStr(cmd.Device))
                  @@ ("boot" :> JObj(    Field(cmd.Boot.Action # <<>>, "action",
                                               JStr(cmd.Boot.Action))
                                      @@ Field(cmd.Boot.Result, "result",
                                               JBool(cmd.Boot.Result)) )) )
      [] OTHER -> JStr(cmd.s)

CommandSuffixNoDefault(cmd) == IF cmd.dyn = "BMCBoot" THEN BootSuffix ELSE PowerSuffix

\* The type switch of SendPowerCommand: the URL suffix of a command, "" for
\* a command that is neither a Power nor a BMCBoot value.
CommandSuffix(cmd) ==
    CASE cmd.dyn = "Power" -> PowerSuffix
      [] cmd.dyn = "BMCBoot" -> BootSuffix
      [] OTHER -> ""

\* fmt.Sprintf of an endpoint: "/<prefix>", "/<prefix>/<id>", "/<prefix>/<id>/<suffix>"
CollectionPath(prefix) == <<"/", prefix>>
ItemPath(prefix, id) == <<"/", prefix, "/">> \o Itoa(id)
CommandPath(prefix, id, suffix) == <<"/", prefix, "/">> \o Itoa(id) \o <<"/", suffix>>

\* SendAndParse(req, &cmd) with cmd an interface{} holding a struct value:
\* encoding/json cannot store into the held value and replaces it by the
\* generic decoding of the document, a map[string]interface{} for an object.
DecodeIntoInterface(b) ==
    IF b.t = "obj" THEN [dyn |-> "map[string]interface{}", m |-> b.o]
    ELSE [dyn |-> "interface{}", j |-> b]

\* cmd.(map[string]interface{}) and cmd.(map[string]map[string]interface{}),
\* the nil map when the assertion fails
PowerMapOf(cmd) == IF cmd.dyn = "map[string]interface{}" THEN cmd.m ELSE EmptyObj
BootMapOf(cmd) == IF cmd.dyn = "map[string]map[string]interface{}" THEN cmd.m ELSE EmptyObj

\* bootMap[BootSuffix]["result"]: nil through a missing key or a nil map
BootResult(bootMap) ==
    IF BootSuffix \in DOMAIN bootMap THEN Get(bootMap[BootSuffix], "result") ELSE JNull

PowerOperationFailedBootOnly(cmd) == BootResult(BootMapOf(cmd)) = JBool(FALSE)

\* The test that ends SendPowerCommand: the response reports a false result.
PowerOperationFailed(cmd) ==
    \/ Get(PowerMapOf(cmd), PowerSuffix) = JBool(FALSE)
    \/ BootResult(BootMapOf(cmd)) = JBool(FALSE)

\* ------------------------------------------------------------------------
\* Errors, requests, results
\* ------------------------------------------------------------------------

NoErr == [kind |-> "nil"]
SendError(i) == [kind |-> "send", attempt |-> i]
RequestError == [kind |-> "request"]
InvalidOperation == [kind |-> "Invalid Operation"]
FailedPowerOperation == [kind |-> "Failed Power Operation"]

Nil == [nil |-> TRUE]
NoRequest == [method |-> "none"]

NewRequest(method, path, body) == [method |-> method, path |-> path, body |-> body]

\* The loop condition of the retry loops of CreateHost, UpdateHost and
\* SendPowerCommand, and their break on a send without error.
RetryLoopCondInclusive(retry, retryCount) == retry <= retryCount

RetryLoopCond(retry, retryCount) == retry < retryCount

BreakOnSuccessNever(sendErr) == FALSE

BreakOnSuccess(sendErr) == sendErr = NoErr

\* retry++ on a failed send
NextRetry(retry, sendErr) == IF sendErr # NoErr THEN retry + 1 ELSE retry

\* What CreateHost and UpdateHost return after the loop.
HostResult(sendErr, host) ==
    IF sendErr # NoErr THEN [err |-> sendErr, entity |-> Nil]
    ELSE [err |-> NoErr, entity |-> host]

\* What SendPowerCommand returns after the loop.
PowerResult(sendErr, cmd) ==
    IF sendErr # NoErr THEN [err |-> sendErr, entity |-> Nil]
    ELSE IF PowerOperationFailed(cmd) THEN [err |-> FailedPowerOperation, entity |-> Nil]
    ELSE [err |-> NoErr, entity |-> Nil]

AfterSingleSendRetry(sendErr) == IF sendErr = NoErr THEN "done" ELSE "sending"

\* The operations without a retry budget return after their one send,
\* whether it failed or not.
AfterSingleSend(sendErr) == "done"

\* What the operations without a retry budget return after their one send.
EntityResult(sendErr, e) ==
    IF sendErr # NoErr THEN [err |-> sendErr, entity |-> Nil]
    ELSE [err |-> NoErr, entity |-> e]

\* ------------------------------------------------------------------------
\* Inputs: the callers' entities and commands, the transport's answers
\* ------------------------------------------------------------------------

NameH1 == <<"h", "1">>
NameG1 == <<"g", "1">>
TitleT == <<"p", "/", "g", "1">>

\* Retry budgets a caller passes, the degenerate ones included.
Budgets == (0 - 1)..MaxRetry

\* Hosts handed to CreateHost, UpdateHost and SendPowerCommand.
OpHosts ==
    { [ZeroHost EXCEPT !.Id = id, !.Name = NameH1, !.HostgroupId = 5, !.ImageId = img] :
        id \in {0, 42}, img \in {0, 1} }

OpHostgroups ==
    { [ZeroHostgroup EXCEPT !.Id = id, !.Name = NameG1, !.Title = t, !.ParentId = 1] :
        id \in {0, 42}, t \in {<<>>, TitleT} }

OpOperatingSystems ==
    { [ZeroOperatingSystem EXCEPT !.Id = id, !.Name = NameG1, !.Title = t,
                                  !.Major = <<"7">>] :
        id \in {0, 42}, t \in {<<>>, TitleT} }

\* Commands handed to SendPowerCommand: the two supported shapes, and values
\* of other dynamic types (a pointer to a Power, a bare string).
Commands ==
    { Power(PowerOn), Power(PowerOff), BMCBoot(BootPxe),
      [dyn |-> "*Power", PowerAction |-> PowerOn, Power |-> FALSE],
      [dyn |-> "string", s |-> PowerOn] }

\* Response bodies of the server.
HostResponses ==
    { JObj(("id" :> JNum(id)) @@ ("name" :> JStr(NameH1)) @@ ("hostgroup_id" :> JNum(5))
           @@ ("domain_id" :> JNull) @@ ("build" :> JBool(TRUE))) : id \in {7, 8} }
    \cup { JObj(("id" :> JStr(<<"x">>))),
           JObj(("id" :> JNum(7)) @@ ("interfaces" :> JStr(<<>>))) }

HostgroupResponses ==
    { JObj(("id" :> JNum(7)) @@ ("name" :> JStr(NameG1)) @@ ("title" :> JStr(TitleT))
           @@ ("parent_id" :> JNum(1))),
      JObj(("id" :> JStr(<<"x">>))) }

OperatingSystemResponses ==
    { JObj(("id" :> JNum(7)) @@ ("name" :> JStr(NameG1)) @@ ("title" :> JStr(TitleT))
           @@ ("media" :> JArr(<<JObj(("id" :> JNum(3))), JObj(("id" :> JNum(2)))>>))),
      JObj(("id" :> JStr(<<"x">>))) }

CommonParameterResponses ==
    { JObj(("id" :> JNum(7)) @@ ("name" :> JStr(<<"k">>)) @@ ("value" :> JStr(<<"w">>))),
      JObj(("id" :> JStr(<<"x">>))) }

NameO1 == <<"o", "1">>

OrganizationResponses ==
    { JObj(("id" :> JNum(7)) @@ ("name" :> JStr(NameO1)) @@ ("title" :> JStr(NameO1))),
      JObj(("foreman_object" :> JObj(("id" :> JNum(7)) @@ ("name" :> JStr(NameO1))))
           @@ ("name" :> JStr(NameO1))),
      JObj(("name" :> JNum(5))) }

LocationResponses ==
    { JObj(("id" :> JNum(7)) @@ ("name" :> JStr(NameO1))),
      JObj(("id" :> JStr(<<"x">>))) }

\* Ids handed to Read and Delete.
OpIds == {0, 42}

OpCommonParameters ==
    { [ForemanObject |-> [Id |-> id, Name |-> <<>>], Name |-> <<"k">>, Value |-> <<"v">>] :
        id \in {0, 42} }

\* Organizations and locations handed to Query: built from a configured
\* name into the base object, or with the organization's own Name set.
OpOrganizations ==
    { [ZeroOrganization EXCEPT !.ForemanObject.Name = n, !.Name = m] :
        n \in {<<>>, NameO1}, m \in {<<>>, NameO1} }

OpLocations == { [ForemanObject |-> [Id |-> 0, Name |-> n]] : n \in {<<>>, NameO1} }

PowerResponses ==
    { JObj(("power_action" :> JStr(PowerOn)) @@ ("power" :> JBool(b))) : b \in BOOLEAN }
    \cup { JObj("boot" :> JObj(("action" :> JStr(BootPxe)) @@ ("result" :> JBool(b)))) :
             b \in BOOLEAN }
    \cup { JObj(EmptyObj) }

\* One exchange with the server: a transport or status error, or a body.
Exchange(bodies) == {[status |-> "error"]} \cup {[status |-> "ok", body |-> b] : b \in bodies}

\* ------------------------------------------------------------------------
\* State
\* ------------------------------------------------------------------------

VARIABLES
    pc,          \* "idle", "sending" (inside an operation, before a send), "done"
    op,          \* the operation in progress
    entity,      \* the entity the caller passed
    cmd,         \* the command the caller passed to SendPowerCommand
    retryCount,  \* the retry budget the caller passed
    req,         \* the request built by NewRequest
    reqBody,     \* what is left to read in the buffer behind the request's body
    retry,       \* the loop counter of the retry loop
    sendErr,     \* the error of the last send
    attempts,    \* every send made so far: the request sent and the exchange
    out,         \* the value SendAndParse decodes into
    result,      \* what the operation returned: [err, entity]
    caller,      \* the caller's entity (the struct behind the pointer passed)
    resourceData, \* the resource data of a data-source read
    codecOp,     \* the last codec step applied
    codecIn,     \* the entity that was encoded
    codecWire,   \* the JSON document encoded, or handed to the decoder
    codecOut     \* the decoder's result: [err, v]

opVars == <<pc, op, entity, cmd, retryCount, req, retry, sendErr, attempts, out, result,
            caller, resourceData, reqBody>>
codecVars == <<codecOp, codecIn, codecWire, codecOut>>
vars == <<pc, op, entity, cmd, retryCount, req, retry, sendErr, attempts, out, result,
          caller, resourceData, reqBody, codecOp, codecIn, codecWire, codecOut>>

Init ==
    /\ pc = "idle" /\ op = "none" /\ entity = Nil /\ cmd = Nil /\ retryCount = 0
    /\ req = NoRequest /\ retry = 0 /\ sendErr = NoErr /\ attempts = <<>>
    /\ out = Nil /\ result = Nil /\ caller = Nil /\ resourceData = Nil /\ reqBody = Nil
    /\ codecOp = "none" /\ codecIn = Nil /\ codecWire = JNull /\ codecOut = Nil

RetryOps == {"CreateHost", "UpdateHost", "SendPowerCommand"}
HostWriteOps == {"CreateHost", "UpdateHost"}
SingleSendOps == {"CreateHostgroup", "UpdateHostgroup",
                  "CreateOperatingSystem", "UpdateOperatingSystem"}
CommonParameterWriteOps == {"CreateCommonParameter", "UpdateCommonParameter"}
CommonParameterOps == CommonParameterWriteOps \cup {"ReadCommonParameter"}
ReadOps == {"ReadHost", "ReadHostgroup", "ReadOperatingSystem", "ReadCommonParameter",
            "ReadOrganization", "ReadLocation"}
DeleteOps == {"DeleteHost", "DeleteHostgroup", "DeleteOperatingSystem",
              "DeleteCommonParameter"}
QueryOps == {"QueryHostgroup", "QueryOperatingSystem", "QueryCommonParameter",
             "QueryOrganization", "QueryLocation"}
DataSourceOps == {"dataSourceForemanOrganizationRead", "dataSourceForemanLocationRead"}

\* The entity kind an operation works on.
KindOf(o) ==
    CASE o \in {"CreateHost", "UpdateHost", "ReadHost", "DeleteHost", "SendPowerCommand"}
            -> "Host"
      [] o \in {"CreateHostgroup", "UpdateHostgroup", "ReadHostgroup", "DeleteHostgroup",
                "QueryHostgroup"} -> "Hostgroup"
      [] o \in {"CreateOperatingSystem", "UpdateOperatingSystem", "ReadOperatingSystem",
                "DeleteOperatingSystem", "QueryOperatingSystem"} -> "OperatingSystem"
      [] o \in {"CreateCommonParameter", "UpdateCommonParameter", "ReadCommonParameter",
                "DeleteCommonParameter", "QueryCommonParameter"} -> "CommonParameter"
      [] o \in {"ReadOrganization", "QueryOrganization",
                "dataSourceForemanOrganizationRead"} -> "Organization"
      [] OTHER -> "Location"

\* ------------------------------------------------------------------------
\* Operations with a retry budget: CreateHost, UpdateHost, SendPowerCommand
\* ------------------------------------------------------------------------

BeginRetryOnRequestError(o, e, c, n, reqErr, request, target, fallThrough) ==
    /\ pc = "idle"
    /\ op' = o /\ entity' = e /\ cmd' = c /\ retryCount' = n
    /\ caller' = e /\ resourceData' = Nil
    /\ attempts' = <<>> /\ retry' = 0 /\ sendErr' = NoErr
    /\ req' = (IF reqErr THEN NoRequest ELSE request) /\ out' = target
    /\ reqBody' = (IF reqErr THEN Nil ELSE request.body)
    /\ IF RetryLoopCond(0, n)
       THEN pc' = "sending" /\ result' = Nil
       ELSE pc' = "done" /\ result' = fallThrough
    /\ UNCHANGED codecVars

\* The part of an operation before its first send: the request is built
\* (reqErr: NewRequest fails), the decode target declared, and the loop
\* condition evaluated once; a loop that is not entered falls through to the
\* return statements after it.
Begin(o, e, c, n, reqErr, request, target, fallThrough) ==
    /\ pc = "idle"
    /\ op' = o /\ entity' = e /\ cmd' = c /\ retryCount' = n
    /\ caller' = e /\ resourceData' = Nil
    /\ attempts' = <<>> /\ retry' = 0 /\ sendErr' = NoErr
    /\ IF reqErr
       THEN /\ req' = NoRequest /\ out' = Nil /\ pc' = "done" /\ reqBody' = Nil
            /\ result' = [err |-> RequestError, entity |-> Nil]
       ELSE /\ req' = request /\ out' = target /\ reqBody' = request.body
            /\ IF RetryLoopCond(0, n)
               THEN pc' = "sending" /\ result' = Nil
               ELSE pc' = "done" /\ result' = fallThrough
    /\ UNCHANGED codecVars

CreateHost ==
    /\ pc = "idle"
    /\ \E h \in OpHosts, n \in Budgets, reqErr \in BOOLEAN :
        Begin("CreateHost", h, Nil, n, reqErr,
              NewRequest("POST", CollectionPath(HostEndpointPrefix),
                         WrapJson("host", HostMarshalJSON(h))),
              ZeroHost, HostResult(NoErr, ZeroHost))

UpdateHost ==
    /\ pc = "idle"
    /\ \E h \in OpHosts, n \in Budgets, reqErr \in BOOLEAN :
        Begin("UpdateHost", h, Nil, n, reqErr,
              NewRequest("PUT", ItemPath(HostEndpointPrefix, h.Id),
                         WrapJson("host", HostMarshalJSON(h))),
              ZeroHost, HostResult(NoErr, ZeroHost))

\* SendPowerCommand with a command of a supported shape.
SendPowerCommand ==
    /\ pc = "idle"
    /\ \E h \in OpHosts, c \in Commands, n \in Budgets, reqErr \in BOOLEAN :
        /\ CommandSuffix(c) # ""
        /\ Begin("SendPowerCommand", h, c, n, reqErr,
                 NewRequest("PUT", CommandPath(HostEndpointPrefix, h.Id, CommandSuffix(c)),
                            CommandMarshal(c)),
                 c, PowerResult(NoErr, c))

\* SendPowerCommand with any other command: the default case of the switch.
SendPowerCommandInvalid ==
    /\ pc = "idle"
    /\ \E h \in OpHosts, c \in Commands, n \in Budgets :
        /\ CommandSuffix(c) = ""
        /\ pc = "idle"
        /\ op' = "SendPowerCommand" /\ entity' = h /\ cmd' = c /\ retryCount' = n
        /\ caller' = h /\ resourceData' = Nil
        /\ attempts' = <<>> /\ retry' = 0 /\ sendErr' = NoErr
        /\ req' = NoRequest /\ out' = Nil /\ pc' = "done" /\ reqBody' = Nil
        /\ result' = [err |-> InvalidOperation, entity |-> Nil]
        /\ UNCHANGED codecVars

\* A failed decode inside ForemanHost.UnmarshalJSON leaves what the earlier
\* steps stored: the base object, when it was the later step that failed.
HostUnmarshalPartial(fh, b) ==
    IF ForemanObjectOk(b)
    THEN [fh EXCEPT !.Id = ForemanObjectId(b), !.Name = ForemanObjectName(b)]
    ELSE fh

\* The entity objects the server may answer with, by kind.
EntityResponses(kind) ==
    CASE kind = "Host" -> HostResponses
      [] kind = "Hostgroup" -> HostgroupResponses
      [] kind = "OperatingSystem" -> OperatingSystemResponses
      [] kind = "CommonParameter" -> CommonParameterResponses
      [] kind = "Organization" -> OrganizationResponses
      [] OTHER -> LocationResponses

\* json.Unmarshal of a document into an entity of a kind: whether it
\* succeeds, and the entity afterwards.
EntityUnmarshalOk(kind, b) ==
    CASE kind = "Host" -> HostUnmarshalOk(b)
      [] kind = "Hostgroup" -> HostgroupUnmarshalOk(b)
      [] kind = "OperatingSystem" -> OperatingSystemUnmarshalOk(b)
      [] kind = "CommonParameter" -> CommonParameterUnmarshalOk(b)
      [] kind = "Organization" -> OrganizationUnmarshalOk(b)
      [] OTHER -> LocationUnmarshalOk(b)

EntityUnmarshal(kind, target, b) ==
    CASE kind = "Host" -> HostUnmarshalJSON(target, b)
      [] kind = "Hostgroup" -> HostgroupUnmarshalJSON(target, b)
      [] kind = "OperatingSystem" -> OperatingSystemUnmarshalJSON(target, b)
      [] kind = "CommonParameter" -> CommonParameterUnmarshal(target, b)
      [] kind = "Organization" -> OrganizationUnmarshal(target, b)
      [] OTHER -> LocationUnmarshal(target, b)

\* var x T: the zero value of a kind
ZeroEntity(kind) ==
    CASE kind = "Host" -> ZeroHost
      [] kind = "Hostgroup" -> ZeroHostgroup
      [] kind = "OperatingSystem" -> ZeroOperatingSystem
      [] kind = "CommonParameter" -> ZeroCommonParameter
      [] kind = "Organization" -> ZeroOrganization
      [] OTHER -> ZeroLocation

\* QueryResponse, the envelope of a search: the subtotal and the untyped
\* result list.
ZeroQueryResponse == [Subtotal |-> 0, Results |-> <<>>]

QueryResponseOk(b) ==
    /\ StructOk(b)
    /\ IntFieldOk(Get(Members(b), "subtotal"))
    /\ IsSlice(Get(Members(b), "results"))

QueryResponseUnmarshal(b) ==
    [ Subtotal |-> IntField(Get(Members(b), "subtotal")),
      Results  |-> Elements(Get(Members(b), "results")) ]

\* json.Marshal(queryResponse.Results) then json.Unmarshal into a []T:
\* whether every element decodes, and the typed list.
TypedResultsOk(kind, results) ==
    \A i \in 1..Len(results) : EntityUnmarshalOk(kind, results[i])

TypedResultsFirstOnly(kind, results) ==
    IF Len(results) = 0 THEN <<>>
    ELSE <<EntityUnmarshal(kind, ZeroEntity(kind), results[1])>>

TypedResults(kind, results) ==
    [i \in 1..Len(results) |-> EntityUnmarshal(kind, ZeroEntity(kind), results[i])]

DecodeError == [kind |-> "decode"]

\* What a Query returns after its send: the envelope as decoded with the
\* send error or the error of the typed decode, or the envelope with the
\* typed list stored back into it.
QueryResult(kind, err, queryResponse) ==
    IF err # NoErr THEN [err |-> err, entity |-> queryResponse]
    ELSE IF ~TypedResultsOk(kind, queryResponse.Results)
    THEN [err |-> DecodeError, entity |-> queryResponse]
    ELSE [ err |-> NoErr,
           entity |-> [queryResponse EXCEPT
                         !.Results = TypedResults(kind, queryResponse.Results)] ]

\* The objects a search may list: the kind's objects and one more.
QueryElements(kind) ==
    EntityResponses(kind) \cup {JObj(("id" :> JNum(8)) @@ ("name" :> JStr(NameO1)))}

QueryResultLists(kind) ==
    {<<>>} \cup {<<a>> : a \in QueryElements(kind)}
           \cup {<<a, b>> : a \in QueryElements(kind), b \in QueryElements(kind)}

\* The envelopes the server may answer a search with: a subtotal count and
\* a result list (not necessarily of that length), or a malformed one.
QueryResponses(kind) ==
    { JObj(("subtotal" :> JNum(n)) @@ ("results" :> JArr(l))) :
        n \in 0..MaxSubtotal, l \in QueryResultLists(kind) }
    \cup { JObj(("subtotal" :> JNum(1)) @@ ("results" :> JNull)),
           JObj(("subtotal" :> JStr(<<"x">>))) }

\* What the server may answer to an operation.
Responses(o) ==
    CASE o = "SendPowerCommand" -> PowerResponses
      [] o \in QueryOps \cup DataSourceOps -> QueryResponses(KindOf(o))
      [] OTHER -> EntityResponses(KindOf(o))

\* SendAndParse(req, &target): whether the body decodes into the target of
\* the operation, and the target after the decode.  Any document decodes
\* into the interface{} that SendPowerCommand passes.
\* The Delete operations pass a nil target: nothing is decoded.
ParseOk(o, b) ==
    CASE o = "SendPowerCommand" -> TRUE
      [] o \in DeleteOps -> TRUE
      [] o \in QueryOps \cup DataSourceOps -> QueryResponseOk(b)
      [] OTHER -> EntityUnmarshalOk(KindOf(o), b)

Parse(o, target, b) ==
    CASE o = "SendPowerCommand" -> DecodeIntoInterface(b)
      [] o \in DeleteOps -> target
      [] o \in QueryOps \cup DataSourceOps -> QueryResponseUnmarshal(b)
      [] OTHER -> EntityUnmarshal(KindOf(o), target, b)

\* The target after a decode that failed part way.
ParsePartial(o, target, b) ==
    IF KindOf(o) = "Host" /\ o \notin DeleteOps
    THEN HostUnmarshalPartial(target, b) ELSE target

\* SendAndParse: the error returned and the target afterwards, for one
\* exchange x made as send number i.
SendAndParse(o, target, x, i) ==
    LET ok == x.status = "ok" /\ ParseOk(o, x.body)
    IN  [ err    |-> IF ok THEN NoErr ELSE SendError(i),
          target |-> IF ok THEN Parse(o, target, x.body)
                     ELSE IF x.status = "ok" THEN ParsePartial(o, target, x.body)
                     ELSE target ]

\* The resource data of a data source: its id and its name attribute.
ZeroResourceData == [id |-> <<>>, name |-> <<>>]

\* buildForemanObject(d): the base object of the configured resource data.
buildForemanObject(d) ==
    [Id |-> IF Atoi(d.id).ok THEN Atoi(d.id).n ELSE 0, Name |-> d.name]

buildForemanOrganization(d) == [ZeroOrganization EXCEPT !.ForemanObject = buildForemanObject(d)]

buildForemanLocation(d) == [ForemanObject |-> buildForemanObject(d)]

\* setResourceDataFromForemanOrganization, setResourceDataFromForemanLocation:
\* d.SetId(strconv.Itoa(fk.Id)); d.Set("name", fk.Name)
setResourceData(kind, fk) ==
    [ id   |-> Itoa(fk.ForemanObject.Id),
      name |-> IF kind = "Organization" THEN fk.Name ELSE fk.ForemanObject.Name ]

NoResultsError == [kind |-> "returned no results"]
MoreThanOneError == [kind |-> "returned more than 1 result"]
IndexOutOfRange == [kind |-> "panic: index out of range"]

SubtotalErrorFirstMatch(subtotal) == IF subtotal = 0 THEN NoResultsError ELSE NoErr

\* The test of the subtotal in a data-source read.
SubtotalError(subtotal) ==
    CASE subtotal = 0 -> NoResultsError
      [] subtotal > 1 -> MoreThanOneError
      [] OTHER -> NoErr

\* A data-source read after the send of its query: the error returned and
\* the resource data d afterwards.  Results[0] of an empty list panics.
DataSourceRead(kind, err, queryResponse, d) ==
    LET q == QueryResult(kind, err, queryResponse)
    IN  IF q.err # NoErr THEN [err |-> q.err, d |-> d]
        ELSE IF SubtotalError(q.entity.Subtotal) # NoErr
        THEN [err |-> SubtotalError(q.entity.Subtotal), d |-> d]
        ELSE IF Len(q.entity.Results) = 0 THEN [err |-> IndexOutOfRange, d |-> d]
        ELSE [err |-> NoErr, d |-> setResourceData(kind, q.entity.Results[1])]

ResourceDataAfter(o, err, target, d) ==
    IF o \in DataSourceOps THEN DataSourceRead(KindOf(o), err, target, d).d ELSE d

CallerAfterAnySend(o, err, target, d) ==
    IF o \in CommonParameterOps THEN CommonParameterAssign(d, target) ELSE d

\* The caller's entity d after the send: Create, Read and Update of a
\* common parameter store the decoded id, name and value into it.
CallerAfter(o, err, target, d) ==
    IF o \in CommonParameterOps /\ err = NoErr THEN CommonParameterAssign(d, target) ELSE d

\* bytes.NewBuffer(JSONBytes) is read by the exchange that transmits the
\* request: what a buffer holds once it has been read to its end.
EmptyBuffer == [t |-> "empty"]

\* The buffer behind the request's body after one send.  An exchange that
\* was answered has transmitted the body and so read the buffer to its end;
\* one that failed may have failed before or after the body was read.  A
\* request without a body (nil reader) has no buffer.
BufferAfterSend(buffer, read) ==
    IF buffer = Nil THEN Nil ELSE IF read THEN EmptyBuffer ELSE buffer

\* The statements after the send (after the loop, for a retried operation).
Return(o, err, target, d) ==
    CASE o \in HostWriteOps -> HostResult(err, target)
      [] o = "SendPowerCommand" -> PowerResult(err, target)
      [] o \in DeleteOps -> [err |-> err, entity |-> Nil]
      [] o \in QueryOps -> QueryResult(KindOf(o), err, target)
      [] o \in DataSourceOps ->
            [err |-> DataSourceRead(KindOf(o), err, target, ZeroResourceData).err,
             entity |-> Nil]
      [] o \in CommonParameterOps -> EntityResult(err, CallerAfter(o, err, target, d))
      [] OTHER -> EntityResult(err, target)

\* One pass of a retry loop: SendAndParse, then retry++ or break, then the
\* loop condition; when the loop ends the operation returns.
RetryStep ==
    /\ pc = "sending"
    /\ \E x \in Exchange(Responses(op)), read \in BOOLEAN :
        LET sent  == SendAndParse(op, out, x, Len(attempts) + 1)
            r     == NextRetry(retry, sent.err)
            again == ~BreakOnSuccess(sent.err) /\ RetryLoopCond(r, retryCount)
        IN  /\ x.status = "ok" => read
            /\ attempts' = Append(attempts, [ok |-> sent.err = NoErr, req |-> req,
                                             body |-> reqBody, exchange |-> x])
            /\ reqBody' = BufferAfterSend(reqBody, read)
            /\ sendErr' = sent.err /\ out' = sent.target /\ retry' = r
            /\ IF again THEN pc' = "sending" /\ result' = result
               ELSE pc' = "done" /\ result' = Return(op, sent.err, sent.target, caller)
    /\ UNCHANGED <<op, entity, cmd, retryCount, req, caller, resourceData>>
    /\ UNCHANGED codecVars

SendHost ==
    /\ op \in HostWriteOps
    /\ RetryStep

SendPower ==
    /\ op = "SendPowerCommand"
    /\ RetryStep

\* ------------------------------------------------------------------------
\* Operations without a retry budget: Create and Update of Hostgroup and
\* OperatingSystem
\* ------------------------------------------------------------------------

BeginSingle(o, e, reqErr, request, target) ==
    /\ pc = "idle"
    /\ op' = o /\ entity' = e /\ cmd' = Nil /\ retryCount' = 0
    /\ caller' = e /\ resourceData' = Nil
    /\ attempts' = <<>> /\ retry' = 0 /\ sendErr' = NoErr
    /\ IF reqErr
       THEN /\ req' = NoRequest /\ out' = Nil /\ pc' = "done" /\ reqBody' = Nil
            /\ result' = [err |-> RequestError, entity |-> Nil]
       ELSE /\ req' = request /\ out' = target /\ pc' = "sending" /\ result' = Nil
            /\ reqBody' = request.body
    /\ UNCHANGED codecVars

CreateHostgroup ==
    /\ pc = "idle"
    /\ \E h \in OpHostgroups, reqErr \in BOOLEAN :
        BeginSingle("CreateHostgroup", h, reqErr,
                    NewRequest("POST", CollectionPath(HostgroupEndpointPrefix),
                               WrapJson("hostgroup", HostgroupMarshalJSON(h))),
                    ZeroHostgroup)

UpdateHostgroup ==
    /\ pc = "idle"
    /\ \E h \in OpHostgroups, reqErr \in BOOLEAN :
        BeginSingle("UpdateHostgroup", h, reqErr,
                    NewRequest("PUT", ItemPath(HostgroupEndpointPrefix, h.Id),
                               WrapJson("hostgroup", HostgroupMarshalJSON(h))),
                    ZeroHostgroup)

CreateOperatingSystem ==
    /\ pc = "idle"
    /\ \E o \in OpOperatingSystems, reqErr \in BOOLEAN :
        BeginSingle("CreateOperatingSystem", o, reqErr,
                    NewRequest("POST", CollectionPath(OperatingSystemEndpointPrefix),
                               WrapJson("operatingsystem", OperatingSystemMarshal(o))),
                    ZeroOperatingSystem)

UpdateOperatingSystem ==
    /\ pc = "idle"
    /\ \E o \in OpOperatingSystems, reqErr \in BOOLEAN :
        BeginSingle("UpdateOperatingSystem", o, reqErr,
                    NewRequest("PUT", ItemPath(OperatingSystemEndpointPrefix, o.Id),
                               WrapJson("operatingsystem", OperatingSystemMarshal(o))),
                    ZeroOperatingSystem)

\* The one SendAndParse of an operation without a retry budget, and its return.
SingleStep ==
    /\ pc = "sending"
    /\ \E x \in Exchange(Responses(op)), read \in BOOLEAN :
        LET sent == SendAndParse(op, out, x, Len(attempts) + 1)
        IN  /\ x.status = "ok" => read
            /\ attempts' = Append(attempts, [ok |-> sent.err = NoErr, req |-> req,
                                             body |-> reqBody, exchange |-> x])
            /\ reqBody' = BufferAfterSend(reqBody, read)
            /\ sendErr' = sent.err /\ out' = sent.target
            /\ pc' = AfterSingleSend(sent.err)
            /\ IF AfterSingleSend(sent.err) = "done"
               THEN /\ result' = Return(op, sent.err, sent.target, caller)
                    /\ caller' = CallerAfter(op, sent.err, sent.target, caller)
                    /\ resourceData' =
                           ResourceDataAfter(op, sent.err, sent.target, resourceData)
               ELSE UNCHANGED <<result, caller, resourceData>>
    /\ UNCHANGED <<op, entity, cmd, retryCount, req, retry>>
    /\ UNCHANGED codecVars

SendHostgroup ==
    /\ op \in {"CreateHostgroup", "UpdateHostgroup"}
    /\ SingleStep

SendOperatingSystem ==
    /\ op \in {"CreateOperatingSystem", "UpdateOperatingSystem"}
    /\ SingleStep

\* ------------------------------------------------------------------------
\* Create and Update of CommonParameter; Read and Delete of every kind
\* ------------------------------------------------------------------------

\* fmt.Sprintf(CommonParameterEndpointPrefix+"/%d", id)
CommonParameterItemPath(id) == CommonParameterEndpointPrefix \o <<"/">> \o Itoa(id)

CreateCommonParameter ==
    /\ pc = "idle"
    /\ \E d \in OpCommonParameters, reqErr \in BOOLEAN :
        BeginSingle("CreateCommonParameter", d, reqErr,
                    NewRequest("POST", CommonParameterEndpointPrefix,
                               WrapJson("common_parameter", CommonParameterMarshal(d))),
                    ZeroCommonParameter)

UpdateCommonParameter ==
    /\ pc = "idle"
    /\ \E d \in OpCommonParameters, id \in OpIds, reqErr \in BOOLEAN :
        BeginSingle("UpdateCommonParameter", d, reqErr,
                    NewRequest("PUT", CommonParameterItemPath(id),
                               WrapJson("common_parameter", CommonParameterMarshal(d))),
                    ZeroCommonParameter)

ReadCommonParameter ==
    /\ pc = "idle"
    /\ \E d \in OpCommonParameters, id \in OpIds, reqErr \in BOOLEAN :
        BeginSingle("ReadCommonParameter", d, reqErr,
                    NewRequest("GET", CommonParameterItemPath(id), Nil),
                    ZeroCommonParameter)

DeleteCommonParameter ==
    /\ pc = "idle"
    /\ \E d \in OpCommonParameters, id \in OpIds, reqErr \in BOOLEAN :
        BeginSingle("DeleteCommonParameter", d, reqErr,
                    NewRequest("DELETE", CommonParameterItemPath(id), Nil), Nil)

SendCommonParameter ==
    /\ op \in CommonParameterWriteOps
    /\ SingleStep

\* Read<Kind>(id): GET /<prefix>/<id>, decoded into a fresh entity.
ReadById(o, prefix) ==
    \E id \in OpIds, reqErr \in BOOLEAN :
        BeginSingle(o, Nil, reqErr, NewRequest("GET", ItemPath(prefix, id), Nil),
                    ZeroEntity(KindOf(o)))

ReadHost == pc = "idle" /\ ReadById("ReadHost", HostEndpointPrefix)

ReadHostgroup == pc = "idle" /\ ReadById("ReadHostgroup", HostgroupEndpointPrefix)

ReadOperatingSystem ==
    pc = "idle" /\ ReadById("ReadOperatingSystem", OperatingSystemEndpointPrefix)

ReadOrganization == pc = "idle" /\ ReadById("ReadOrganization", OrganizationEndpointPrefix)

ReadLocation == pc = "idle" /\ ReadById("ReadLocation", LocationEndpointPrefix)

SendRead ==
    /\ op \in ReadOps
    /\ SingleStep

\* Delete<Kind>(id): DELETE /<prefix>/<id>, nothing decoded.
DeleteById(o, prefix) ==
    \E id \in OpIds, reqErr \in BOOLEAN :
        BeginSingle(o, Nil, reqErr, NewRequest("DELETE", ItemPath(prefix, id), Nil), Nil)

DeleteHost == pc = "idle" /\ DeleteById("DeleteHost", HostEndpointPrefix)

DeleteHostgroup == pc = "idle" /\ DeleteById("DeleteHostgroup", HostgroupEndpointPrefix)

DeleteOperatingSystem ==
    pc = "idle" /\ DeleteById("DeleteOperatingSystem", OperatingSystemEndpointPrefix)

SendDelete ==
    /\ op \in DeleteOps
    /\ SingleStep

\* ------------------------------------------------------------------------
\* Query of Hostgroup, OperatingSystem, CommonParameter, Organization, Location
\* ------------------------------------------------------------------------

\* reqQuery.Set("search", field+"="+`"`+value+`"`) on the empty query of
\* the new request: the query parameters, by name.
SearchQuery(field, value) == "search" :> (<<field, "=", "\"">> \o value \o <<"\"">>)

\* The part of a Query before its send.
BeginQuery(o, e, reqErr, path, field, value) ==
    /\ pc = "idle"
    /\ op' = o /\ entity' = e /\ cmd' = Nil /\ retryCount' = 0
    /\ caller' = e /\ resourceData' = Nil
    /\ attempts' = <<>> /\ retry' = 0 /\ sendErr' = NoErr
    /\ out' = ZeroQueryResponse /\ reqBody' = Nil
    /\ IF reqErr
       THEN /\ req' = NoRequest /\ pc' = "done"
            /\ result' = [err |-> RequestError, entity |-> ZeroQueryResponse]
       ELSE /\ req' = [ method |-> "GET", path |-> path, body |-> Nil,
                        query |-> SearchQuery(field, value) ]
            /\ pc' = "sending" /\ result' = Nil
    /\ UNCHANGED codecVars

QueryHostgroup ==
    /\ pc = "idle"
    /\ \E h \in OpHostgroups, reqErr \in BOOLEAN :
        BeginQuery("QueryHostgroup", h, reqErr, CollectionPath(HostgroupEndpointPrefix),
                   "title", h.Title)

QueryOperatingSystem ==
    /\ pc = "idle"
    /\ \E o \in OpOperatingSystems, reqErr \in BOOLEAN :
        BeginQuery("QueryOperatingSystem", o, reqErr,
                   CollectionPath(OperatingSystemEndpointPrefix), "title", o.Title)

\* fmt.Sprintf("/%s", CommonParameterEndpointPrefix)
QueryCommonParameter ==
    /\ pc = "idle"
    /\ \E d \in OpCommonParameters, reqErr \in BOOLEAN :
        BeginQuery("QueryCommonParameter", d, reqErr,
                   <<"/">> \o CommonParameterEndpointPrefix, "name", d.Name)

QueryOrganization ==
    /\ pc = "idle"
    /\ \E t \in OpOrganizations, reqErr \in BOOLEAN :
        BeginQuery("QueryOrganization", t, reqErr,
                   CollectionPath(OrganizationEndpointPrefix), "name", t.Name)

QueryLocation ==
    /\ pc = "idle"
    /\ \E t \in OpLocations, reqErr \in BOOLEAN :
        BeginQuery("QueryLocation", t, reqErr,
                   CollectionPath(LocationEndpointPrefix), "name", t.ForemanObject.Name)

SendQuery ==
    /\ op \in QueryOps
    /\ SingleStep

\* ------------------------------------------------------------------------
\* Data sources: organization, location
\* ------------------------------------------------------------------------

\* The resource data a data source is read with: the configured name, no id.
ConfiguredResourceData == { [id |-> <<>>, name |-> n] : n \in {NameO1, <<"o", "2">>} }

\* The part of a data-source read before the send of its query: the entity
\* t is built from the resource data d and handed to Query.
BeginDataSource(o, d, t, reqErr, path, value) ==
    /\ pc = "idle"
    /\ op' = o /\ entity' = d /\ cmd' = Nil /\ retryCount' = 0
    /\ caller' = t /\ resourceData' = d
    /\ attempts' = <<>> /\ retry' = 0 /\ sendErr' = NoErr
    /\ out' = ZeroQueryResponse /\ reqBody' = Nil
    /\ IF reqErr
       THEN /\ req' = NoRequest /\ pc' = "done"
            /\ result' = [err |-> RequestError, entity |-> Nil]
       ELSE /\ req' = [ method |-> "GET", path |-> path, body |-> Nil,
                        query |-> SearchQuery("name", value) ]
            /\ pc' = "sending" /\ result' = Nil
    /\ UNCHANGED codecVars

dataSourceForemanOrganizationRead ==
    /\ pc = "idle"
    /\ \E d \in ConfiguredResourceData, reqErr \in BOOLEAN :
        BeginDataSource("dataSourceForemanOrganizationRead", d, buildForemanOrganization(d),
                        reqErr, CollectionPath(OrganizationEndpointPrefix),
                        buildForemanOrganization(d).Name)

dataSourceForemanLocationRead ==
    /\ pc = "idle"
    /\ \E d \in ConfiguredResourceData, reqErr \in BOOLEAN :
        BeginDataSource("dataSourceForemanLocationRead", d, buildForemanLocation(d),
                        reqErr, CollectionPath(LocationEndpointPrefix),
                        buildForemanLocation(d).ForemanObject.Name)

SendDataSource ==
    /\ op \in DataSourceOps
    /\ SingleStep

\* The caller has its result; the client is ready for the next call.
Finish ==
    /\ pc = "done"
    /\ pc' = "idle" /\ op' = "none" /\ entity' = Nil /\ cmd' = Nil /\ retryCount' = 0
    /\ req' = NoRequest /\ retry' = 0 /\ sendErr' = NoErr /\ attempts' = <<>>
    /\ out' = Nil /\ result' = Nil /\ caller' = Nil /\ resourceData' = Nil
    /\ reqBody' = Nil
    /\ UNCHANGED codecVars

Next ==
    \/ CreateHost
    \/ UpdateHost
    \/ SendPowerCommand
    \/ SendPowerCommandInvalid
    \/ SendHost
    \/ SendPower
    \/ CreateHostgroup
    \/ UpdateHostgroup
    \/ CreateOperatingSystem
    \/ UpdateOperatingSystem
    \/ SendHostgroup
    \/ SendOperatingSystem
    \/ CreateCommonParameter
    \/ UpdateCommonParameter
    \/ ReadCommonParameter
    \/ DeleteCommonParameter
    \/ SendCommonParameter
    \/ ReadHost
    \/ ReadHostgroup
    \/ ReadOperatingSystem
    \/ ReadOrganization
    \/ ReadLocation
    \/ SendRead
    \/ DeleteHost
    \/ DeleteHostgroup
    \/ DeleteOperatingSystem
    \/ SendDelete
    \/ QueryHostgroup
    \/ QueryOperatingSystem
    \/ QueryCommonParameter
    \/ QueryOrganization
    \/ QueryLocation
    \/ SendQuery
    \/ dataSourceForemanOrganizationRead
    \/ dataSourceForemanLocationRead
    \/ SendDataSource
    \/ Finish

Spec == Init /\ [][Next]_vars

\* ------------------------------------------------------------------------
\* The codecs on their own: encode, decode, and decode of what was encoded
\* ------------------------------------------------------------------------

FKValues == {0, 1, MaxFK}

HostFKFields == DOMAIN HostForeignKeys
HostgroupFKFields == DOMAIN HostgroupForeignKeys

\* The entity zero with foreign key k set to v and every other one to d.
WithForeignKeys(zero, fields, k, v, d) ==
    [f \in DOMAIN zero |-> IF f = k THEN v ELSE IF f \in fields THEN d ELSE zero[f]]

ZeroInterface ==
    [ Id |-> 0, SubnetId |-> 0, Identifier |-> <<>>, Name |-> <<>>, Username |-> <<>>,
      Password |-> <<>>, Managed |-> FALSE, Provision |-> FALSE, Virtual |-> FALSE,
      Primary |-> FALSE, IP |-> <<>>, MAC |-> <<>>, Type |-> <<>>, Provider |-> <<>>,
      AttachedDevices |-> <<>>, AttachedTo |-> <<>>, ComputeAttributes |-> EmptyObj,
      Destroy |-> FALSE ]

Interface(id, subnet, destroy) ==
    [ZeroInterface EXCEPT !.Id = id, !.SubnetId = subnet, !.Identifier = <<"e", "0">>,
                          !.Primary = TRUE, !.Destroy = destroy]

CodecInterfaceLists ==
    { <<>>, <<Interface(0, 0, FALSE)>>, <<Interface(3, 1, FALSE), Interface(4, MaxFK, TRUE)>> }

CodecParameterLists == { <<>>, <<[Name |-> <<"k">>, Value |-> <<"v">>]>> }

CodecHosts ==
    { [WithForeignKeys(ZeroHost, HostFKFields, k, v, d) EXCEPT
          !.Id = id, !.Name = NameH1, !.InterfacesAttributes = ifs, !.HostParameters = ps] :
        k \in HostFKFields, v \in FKValues, d \in FKValues, id \in {0, 42},
        ifs \in CodecInterfaceLists, ps \in CodecParameterLists }

CodecHostgroups ==
    { [WithForeignKeys(ZeroHostgroup, HostgroupFKFields, k, v, d) EXCEPT
          !.Id = id, !.Name = NameG1, !.Title = t, !.HostGroupParameters = ps] :
        k \in HostgroupFKFields, v \in FKValues, d \in FKValues, id \in {0, 42},
        t \in {<<>>, TitleT}, ps \in CodecParameterLists }

\* How the server may write a foreign key: leave the key out, null, "", a
\* number, or the number as a string.
WireForms == {"missing", "null", "empty", "one", "max", "text"}

WireValue(form) ==
    CASE form = "null"  -> JNull
      [] form = "empty" -> JStr(<<>>)
      [] form = "one"   -> JNum(1)
      [] form = "max"   -> JNum(MaxFK)
      [] form = "text"  -> JStr(Itoa(MaxFK))

\* The members of a server object for the wire keys: key k in form w, every
\* other key in form d.
WireForeignKeys(keys, k, w, d) ==
    LET form(x) == IF x = k THEN w ELSE d
    IN  [x \in {y \in keys : form(y) # "missing"} |-> WireValue(form(x))]

HostWireKeys == {HostForeignKeys[f] : f \in HostFKFields}
HostgroupWireKeys == {HostgroupForeignKeys[f] : f \in HostgroupFKFields}

ServerHostObjects ==
    { JObj(WireForeignKeys(HostWireKeys, k, w, d)
           @@ ("id" :> JNum(7)) @@ ("name" :> JStr(NameH1))) :
        k \in HostWireKeys, w \in WireForms, d \in WireForms }

ServerHostgroupObjects ==
    { JObj(WireForeignKeys(HostgroupWireKeys, k, w, d)
           @@ ("id" :> JNum(7)) @@ ("name" :> JStr(NameG1))) :
        k \in HostgroupWireKeys, w \in WireForms, d \in WireForms }

\* Interface objects as the server may write them: without the removal
\* marker, or with the key "_destroy" present.
ServerInterface(id, marker) ==
    JObj(    ("id" :> JNum(id)) @@ ("identifier" :> JStr(<<"e", "0">>))
          @@ ("subnet_id" :> JNum(1)) @@ ("primary" :> JBool(TRUE))
          @@ Field(marker # "missing", "_destroy", JBool(marker = "true")) )

ServerInterfaceLists ==
    { <<>>, <<ServerInterface(3, "missing")>>,
      <<ServerInterface(3, "missing"), ServerInterface(4, "false")>>,
      <<ServerInterface(3, "false"), ServerInterface(4, "true")>> }

ServerParameterLists ==
    { <<>>, <<JObj(("name" :> JStr(<<"k">>)) @@ ("value" :> JStr(<<"v">>)))>> }

\* Host objects of the server that carry nested collections, under the key
\* of a response ("interfaces", "parameters") or under the key of a request.
ServerHostCollectionObjects ==
    { JObj(    ("id" :> JNum(7)) @@ ("name" :> JStr(NameH1))
            @@ (ik :> JArr(ifs)) @@ (pk :> JArr(ps)) ) :
        ik \in {"interfaces", "interfaces_attributes"}, ifs \in ServerInterfaceLists,
        pk \in {"parameters", "host_parameters_attributes"}, ps \in ServerParameterLists }

\* Host objects of the server with a name and a domain name: the FQDN of
\* a short name in the domain, a short name with a label that begins with
\* the domain, a name outside the domain, no domain.
ServerHostNames ==
    { <<"h", ".", "d">>, <<"a", ".", "d", "b", ".", "d">>, <<"h">>, <<"h", ".", "x">> }

ServerHostNameObjects ==
    { JObj(    ("id" :> JNum(7)) @@ ("name" :> JStr(n))
            @@ Field(present, "domain_name", JStr(d)) ) :
        n \in ServerHostNames, d \in {<<>>, <<"d">>}, present \in BOOLEAN }

\* Nested object lists of an operating system as the server writes them:
\* objects with an id and further fields, in the server's order.
ServerNestedObject(id) ==
    JObj(("id" :> JNum(id)) @@ ("name" :> JStr(<<"n">>)) @@ ("title" :> JStr(<<"t">>)))

ServerNestedLists ==
    { <<>>, <<ServerNestedObject(3)>>,
      <<ServerNestedObject(3), ServerNestedObject(2), ServerNestedObject(MaxFK)>>,
      <<ServerNestedObject(2), ServerNestedObject(2)>> }

\* The field of ForemanOperatingSystem each nested list is projected into.
OsIdListFields ==
    [ provisioning_templates |-> "ProvisioningTemplateIds", media |-> "MediumIds",
      architectures |-> "ArchitectureIds", ptables |-> "PartitiontableIds" ]

ServerOperatingSystemObjects ==
    { JObj(    ("id" :> JNum(7)) @@ ("name" :> JStr(NameG1)) @@ ("major" :> JStr(<<"7">>))
            @@ [x \in OsRespKeys |-> JArr(IF x = k THEN l ELSE d)] ) :
        k \in OsRespKeys, l \in ServerNestedLists, d \in ServerNestedLists }
    \cup { JObj(("id" :> JNum(7)) @@ ("media" :> JNull)),
           JObj(("id" :> JNum(7)) @@ ("media" :> JArr(<<JNum(3)>>))) }

\* json.Unmarshal(b, &v) with v a fresh entity: [err, v]
UnmarshalHost(b) ==
    IF HostUnmarshalOk(b) THEN [err |-> FALSE, v |-> HostUnmarshalJSON(ZeroHost, b)]
    ELSE [err |-> TRUE, v |-> HostUnmarshalPartial(ZeroHost, b)]

UnmarshalHostgroup(b) ==
    IF HostgroupUnmarshalOk(b)
    THEN [err |-> FALSE, v |-> HostgroupUnmarshalJSON(ZeroHostgroup, b)]
    ELSE [err |-> TRUE, v |-> ZeroHostgroup]

UnmarshalOperatingSystem(b) ==
    IF OperatingSystemUnmarshalOk(b)
    THEN [err |-> FALSE, v |-> OperatingSystemUnmarshalJSON(ZeroOperatingSystem, b)]
    ELSE [err |-> TRUE, v |-> ZeroOperatingSystem]

Encoded(name, e, wire) ==
    /\ codecOp' = name /\ codecIn' = e /\ codecWire' = wire /\ codecOut' = Nil
    /\ UNCHANGED opVars

Decoded(name, e, wire, res) ==
    /\ codecOp' = name /\ codecIn' = e /\ codecWire' = wire /\ codecOut' = res
    /\ UNCHANGED opVars

EncodeHost ==
    /\ codecOp = "none"
    /\ \E h \in CodecHosts : Encoded("EncodeHost", h, HostMarshalJSON(h))

EncodeHostgroup ==
    /\ codecOp = "none"
    /\ \E h \in CodecHostgroups : Encoded("EncodeHostgroup", h, HostgroupMarshalJSON(h))

\* decode(encode(entity))
RoundTripHost ==
    /\ codecOp = "EncodeHost"
    /\ Decoded("RoundTripHost", codecIn, codecWire,
               UnmarshalHost(codecWire))

RoundTripHostgroup ==
    /\ codecOp = "EncodeHostgroup"
    /\ Decoded("RoundTripHostgroup", codecIn, codecWire,
               UnmarshalHostgroup(codecWire))

DecodeHost ==
    /\ codecOp = "none"
    /\ \E b \in ServerHostObjects \cup ServerHostCollectionObjects \cup ServerHostNameObjects :
        Decoded("DecodeHost", Nil, b,
                UnmarshalHost(b))

DecodeHostgroup ==
    /\ codecOp = "none"
    /\ \E b \in ServerHostgroupObjects :
        Decoded("DecodeHostgroup", Nil, b,
                UnmarshalHostgroup(b))

DecodeOperatingSystem ==
    /\ codecOp = "none"
    /\ \E b \in ServerOperatingSystemObjects :
        Decoded("DecodeOperatingSystem", Nil, b,
                UnmarshalOperatingSystem(b))

\* The values are dropped; the next codec call starts afresh.
CodecDone ==
    /\ codecOp \notin {"none", "EncodeHost", "EncodeHostgroup"}
    /\ Decoded("none", Nil, JNull, Nil)

NextCodec ==
    \/ EncodeHost
    \/ EncodeHostgroup
    \/ RoundTripHost
    \/ RoundTripHostgroup
    \/ DecodeHost
    \/ DecodeHostgroup
    \/ DecodeOperatingSystem
    \/ CodecDone

SpecCodec == Init /\ [][NextCodec]_vars

\* ------------------------------------------------------------------------
\* Properties of the operations (checked under Spec)
\* ------------------------------------------------------------------------

Built == req # NoRequest
Sends == Len(attempts)
LastAttempt == attempts[Len(attempts)]
AllFailed == \A i \in 1..Len(attempts) : ~attempts[i].ok
IsSendError(e) == e.kind = "send"

ExhaustedBudgetReturnsLastError ==
    (op \in RetryOps /\ retryCount >= 1 /\ Built /\ pc = "done" /\ AllFailed) =>
        /\ Sends = retryCount
        /\ result = [err |-> SendError(retryCount), entity |-> Nil]

\* C2 witness: budget 2, both attempts fail, the second error is returned.
ExhaustedBudgetWitness ==
    /\ pc = "done" /\ op = "UpdateHost" /\ retryCount = 2 /\ Sends = 2 /\ AllFailed
    /\ result = [err |-> SendError(2), entity |-> Nil]

\* C3 (as claimed): for every budget, CreateHost and UpdateHost return a
\* non-nil entity with a nil error only if some send succeeded, the entity
\* being the one decoded from that response; otherwise only an error.
NoPartialSuccess ==
    (op \in HostWriteOps /\ pc = "done") =>
        IF result.err = NoErr
        THEN /\ Sends >= 1 /\ LastAttempt.ok
             /\ result.entity = HostUnmarshalJSON(ZeroHost, LastAttempt.exchange.body)
        ELSE result.entity = Nil

\* C4: SendPowerCommand with a Power command for host H sends a PUT to
\* /hosts/H/power, and when the send succeeds with a response carrying
\* "power": false the call returns the operation-failed error.
PowerFalseIsFailure ==
    (op = "SendPowerCommand" /\ cmd.dyn = "Power" /\ Built) =>
        /\ req.method = "PUT"
        /\ req.path = <<"/", "hosts", "/">> \o Itoa(entity.Id) \o <<"/", "power">>
        /\ entity.Id = 42 => req.path = <<"/", "hosts", "/", "4", "2", "/", "power">>
        /\ \A i \in 1..Sends :
              attempts[i].req.method = "PUT" /\ attempts[i].req.path = req.path
        /\ (/\ pc = "done" /\ Sends >= 1 /\ LastAttempt.ok
            /\ Get(LastAttempt.exchange.body.o, "power") = JBool(FALSE))
           => result.err = FailedPowerOperation

\* C4 witness: Power{PowerAction:"on"} for host 42, answered with
\* {"power_action":"on","power":false}.
PowerFalseWitness ==
    /\ pc = "done" /\ op = "SendPowerCommand" /\ cmd = Power(PowerOn) /\ entity.Id = 42
    /\ Sends >= 1 /\ LastAttempt.ok
    /\ LastAttempt.exchange.body =
           JObj(("power_action" :> JStr(PowerOn)) @@ ("power" :> JBool(FALSE)))
    /\ req.body = JObj("power_action" :> JStr(PowerOn))
    /\ result.err = FailedPowerOperation

\* C5 (as claimed): SendPowerCommand with a BMCBoot command, after a
\* successful send whose response carries "boot": {"result": false},
\* returns the operation-failed error.
BootFalseIsFailure ==
    (/\ op = "SendPowerCommand" /\ cmd.dyn = "BMCBoot" /\ pc = "done"
     /\ Sends >= 1 /\ LastAttempt.ok
     /\ HasKey(LastAttempt.exchange.body, "boot")
     /\ Get(LastAttempt.exchange.body.o["boot"].o, "result") = JBool(FALSE))
    => result.err = FailedPowerOperation

\* C6: SendPowerCommand accepts exactly two command shapes, a Power value
\* (suffix "power") and a BMCBoot value (suffix "boot"); for any other
\* command it returns an input error, and no request is built or sent,
\* whatever the budget.
TwoCommandShapes ==
    op = "SendPowerCommand" =>
        /\ (cmd.dyn = "Power" /\ Built) => req.path[Len(req.path)] = "power"
        /\ (cmd.dyn = "BMCBoot" /\ Built) => req.path[Len(req.path)] = "boot"
        /\ (cmd.dyn \in {"Power", "BMCBoot"} /\ pc = "done") => result.err # InvalidOperation
        /\ cmd.dyn \notin {"Power", "BMCBoot"} =>
            /\ ~Built /\ Sends = 0 /\ pc = "done"
            /\ result = [err |-> InvalidOperation, entity |-> Nil]

\* C6 witness: a pointer to a Power with budget 3 is rejected.
TwoCommandShapesWitness ==
    /\ pc = "done" /\ op = "SendPowerCommand" /\ cmd.dyn = "*Power" /\ retryCount = 3
    /\ result.err = InvalidOperation /\ Sends = 0

\* C10 (as claimed): the body sent by Create and Update of an entity with a
\* computed title (Hostgroup, OperatingSystem) contains no "title" key.
TitleNeverSent ==
    (op \in SingleSendOps /\ Built) =>
        \A k \in DOMAIN req.body.o : ~HasKey(req.body.o[k], "title")

\* ------------------------------------------------------------------------
\* Properties of the codecs (checked under SpecCodec)
\* ------------------------------------------------------------------------

\* The foreign-key fields of the entity kind a codec step worked on.
CodecForeignKeys ==
    IF codecOp \in {"EncodeHost", "RoundTripHost", "DecodeHost"}
    THEN HostForeignKeys ELSE HostgroupForeignKeys

\* The wire value the convention prescribes for a foreign key.
ForeignKeyOnWire(n) == IF n = 0 THEN JStr(<<>>) ELSE JStr(Itoa(n))

\* C7 (as claimed): for every Host and Hostgroup with foreign keys in
\* {0, 1, 9999}, decode(encode(entity)) preserves Id, Name and every
\* foreign-key field.
RoundTripPreserves ==
    codecOp \in {"RoundTripHost", "RoundTripHostgroup"} =>
        /\ ~codecOut.err
        /\ codecOut.v.Id = codecIn.Id
        /\ codecOut.v.Name = codecIn.Name
        /\ \A f \in DOMAIN CodecForeignKeys : codecOut.v[f] = codecIn[f]

\* C8 (as claimed): on every marshal path every foreign-key integer field,
\* the subnet id of nested interfaces included, is always emitted, as "" for
\* 0 and as the decimal string of n for a positive n, never as a number.
ForeignKeysEmittedAsStrings ==
    codecOp \in {"EncodeHost", "EncodeHostgroup"} =>
        /\ \A f \in DOMAIN CodecForeignKeys :
              /\ HasKey(codecWire, CodecForeignKeys[f])
              /\ codecWire.o[CodecForeignKeys[f]] = ForeignKeyOnWire(codecIn[f])
        /\ (codecOp = "EncodeHost" /\ HasKey(codecWire, "interfaces_attributes")) =>
              \A i \in 1..Len(codecIn.InterfacesAttributes) :
                  /\ HasKey(codecWire.o["interfaces_attributes"].a[i], "subnet_id")
                  /\ codecWire.o["interfaces_attributes"].a[i].o["subnet_id"]
                         = ForeignKeyOnWire(codecIn.InterfacesAttributes[i].SubnetId)

\* C9 (as claimed): on decode of a Host or a Hostgroup, for every
\* foreign-key field, a wire value of "", null or a missing key yields 0 and
\* a numeric wire value n yields n.
ForeignKeysDecoded ==
    codecOp \in {"DecodeHost", "DecodeHostgroup"} =>
        /\ ~codecOut.err
        /\ \A f \in DOMAIN CodecForeignKeys :
              LET w == Get(codecWire.o, CodecForeignKeys[f])
              IN  /\ (w = JNull \/ w = JStr(<<>>)) => codecOut.v[f] = 0
                  /\ w.t = "num" => codecOut.v[f] = w.n

\* C11 (as claimed): encoding an entity with a non-empty nested collection
\* places the collection under its write-side key, and that key is distinct
\* from the key the decoder reads the collection from: the decoder, given
\* the encoded document, finds no collection in it.
WriteKeyDistinctFromReadKey ==
    /\ codecOp = "RoundTripHost" =>
          /\ Len(codecIn.InterfacesAttributes) > 0 =>
                /\ HasKey(codecWire, "interfaces_attributes")
                /\ codecWire.o["interfaces_attributes"]
                       = InterfacesMarshal(codecIn.InterfacesAttributes)
                /\ codecOut.v.InterfacesAttributes = <<>>
          /\ Len(codecIn.HostParameters) > 0 =>
                /\ HasKey(codecWire, "host_parameters_attributes")
                /\ codecWire.o["host_parameters_attributes"]
                       = KVParametersMarshal(codecIn.HostParameters)
                /\ codecOut.v.HostParameters = <<>>
    /\ (codecOp = "RoundTripHostgroup" /\ Len(codecIn.HostGroupParameters) > 0) =>
                /\ HasKey(codecWire, "group_parameters_attributes")
                /\ codecWire.o["group_parameters_attributes"]
                       = KVParametersMarshal(codecIn.HostGroupParameters)
                /\ codecOut.v.HostGroupParameters = <<>>

\* C12: encoding a Host with no interfaces, a Host with no parameters or a
\* Hostgroup with no parameters writes no key for that collection: the
\* document has neither [] nor null under it.
EmptyCollectionOmitted ==
    /\ codecOp = "EncodeHost" =>
          /\ Len(codecIn.InterfacesAttributes) = 0 =>
                ~HasKey(codecWire, "interfaces_attributes") /\ ~HasKey(codecWire, "interfaces")
          /\ Len(codecIn.HostParameters) = 0 =>
                ~HasKey(codecWire, "host_parameters_attributes")
    /\ (codecOp = "EncodeHostgroup" /\ Len(codecIn.HostGroupParameters) = 0) =>
                ~HasKey(codecWire, "group_parameters_attributes")

\* C12 witness: a Host with foreign keys set, no interfaces and no
\* parameters has been encoded.
EmptyCollectionOmittedWitness ==
    /\ codecOp = "EncodeHost" /\ codecIn.InterfacesAttributes = <<>>
    /\ codecIn.HostParameters = <<>> /\ codecIn.DomainId = MaxFK
    /\ HasKey(codecWire, "domain_id") /\ ~HasKey(codecWire, "interfaces_attributes")

\* C13 (as claimed): for every server response decoded into a Host, every
\* element of the decoded interfaces collection has its removal marker false.
DecodeNeverSetsDestroy ==
    (codecOp = "DecodeHost" /\ ~codecOut.err) =>
        \A i \in 1..Len(codecOut.v.InterfacesAttributes) :
            ~codecOut.v.InterfacesAttributes[i].Destroy

\* C14: when a Host is encoded, an interface whose removal marker is true
\* is written with "_destroy": true, and one whose marker is false is
\* written without a "_destroy" key.
DestroySerialized ==
    (codecOp = "EncodeHost" /\ Len(codecIn.InterfacesAttributes) > 0) =>
        /\ HasKey(codecWire, "interfaces_attributes")
        /\ Len(codecWire.o["interfaces_attributes"].a) = Len(codecIn.InterfacesAttributes)
        /\ \A i \in 1..Len(codecIn.InterfacesAttributes) :
              LET w == codecWire.o["interfaces_attributes"].a[i]
              IN  IF codecIn.InterfacesAttributes[i].Destroy
                  THEN HasKey(w, "_destroy") /\ w.o["_destroy"] = JBool(TRUE)
                  ELSE ~HasKey(w, "_destroy")

\* C14 witness: a Host with one interface to keep and one to remove has
\* been encoded.
DestroySerializedWitness ==
    /\ codecOp = "EncodeHost" /\ Len(codecIn.InterfacesAttributes) = 2
    /\ ~codecIn.InterfacesAttributes[1].Destroy /\ codecIn.InterfacesAttributes[2].Destroy
    /\ codecWire.o["interfaces_attributes"].a[2].o["_destroy"] = JBool(TRUE)

\* C20: decoding an OperatingSystem projects each nested object list of the
\* server (provisioning templates, media, architectures, partition tables)
\* to an integer list of the same length and order, element i being the id
\* of the server's i-th nested object.
IdListProjection ==
    (codecOp = "DecodeOperatingSystem" /\ ~codecOut.err) =>
        \A k \in OsRespKeys :
            LET nested == Elements(Get(codecWire.o, k))
                ids    == codecOut.v[OsIdListFields[k]]
            IN  /\ Len(ids) = Len(nested)
                /\ \A i \in 1..Len(nested) : ids[i] = nested[i].o["id"].n

\* C20 witness: the media of the server are the objects 3, 2, 9999 in that
\* order and the decoded ids are 3, 2, 9999.
IdListProjectionWitness ==
    /\ codecOp = "DecodeOperatingSystem" /\ ~codecOut.err
    /\ HasKey(codecWire, "media") /\ Len(Elements(codecWire.o["media"])) = 3
    /\ codecOut.v.MediumIds = <<3, 2, MaxFK>>

\* ------------------------------------------------------------------------
\* Properties of Create, Update, Read, Delete and Query (checked under Spec)
\* ------------------------------------------------------------------------

CreateUpdateOps == HostWriteOps \cup SingleSendOps \cup CommonParameterWriteOps

\* C15 (as claimed): for Host, Hostgroup, OperatingSystem and
\* CommonParameter, a Create or Update that succeeds after a send returns
\* an entity whose every field is decoded from the server's response into a
\* fresh entity, and leaves the caller's input entity as it was passed.
ReturnsServerEntity ==
    (op \in CreateUpdateOps /\ pc = "done" /\ result.err = NoErr /\ Sends >= 1) =>
        /\ result.entity = EntityUnmarshal(KindOf(op), ZeroEntity(KindOf(op)),
                                           LastAttempt.exchange.body)
        /\ caller = entity

NoRetryOps ==
    ReadOps \cup DeleteOps \cup QueryOps \cup SingleSendOps \cup CommonParameterWriteOps

QueryKeepsEveryMatch ==
    (op \in QueryOps /\ pc = "done" /\ result.err = NoErr) =>
        /\ Sends = 1 /\ LastAttempt.ok
        /\ LET envelope == LastAttempt.exchange.body.o
               untyped  == Elements(Get(envelope, "results"))
           IN  /\ Len(result.entity.Results) = Len(untyped)
               /\ \A i \in 1..Len(untyped) :
                     result.entity.Results[i]
                       = EntityUnmarshal(KindOf(op), ZeroEntity(KindOf(op)), untyped[i])
               /\ result.entity.Subtotal = Get(envelope, "subtotal").n

\* C17 witness: a QueryLocation answered with subtotal 2 and the locations
\* 7 and 8 has returned the two typed locations in that order.
QueryKeepsEveryMatchWitness ==
    /\ op = "QueryLocation" /\ pc = "done" /\ result.err = NoErr
    /\ result.entity.Subtotal = 2 /\ Len(result.entity.Results) = 2
    /\ result.entity.Results[1].ForemanObject.Id = 7
    /\ result.entity.Results[2].ForemanObject.Id = 8

\* The path Create posts to, which also prefixes the path of Read, Update
\* and Delete, by kind.
CollectionEndpoint(kind) ==
    CASE kind = "Hostgroup" -> CollectionPath(HostgroupEndpointPrefix)
      [] kind = "OperatingSystem" -> CollectionPath(OperatingSystemEndpointPrefix)
      [] kind = "CommonParameter" -> CommonParameterEndpointPrefix
      [] kind = "Organization" -> CollectionPath(OrganizationEndpointPrefix)
      [] OTHER -> CollectionPath(LocationEndpointPrefix)

\* C19 (as claimed): every Query issues a GET to the collection endpoint of
\* its kind, the path Create posts to and that /<collection>/<id> extends,
\* with the single query parameter search of the form <field>="<value>".
QueryToCollectionEndpoint ==
    (op \in QueryOps /\ Built) =>
        /\ req.method = "GET"
        /\ req.path = CollectionEndpoint(KindOf(op))
        /\ DOMAIN req.query = {"search"}
        /\ LET q == req.query["search"]
           IN  /\ Len(q) >= 4 /\ q[1] \in {"name", "title"}
               /\ q[2] = "=" /\ q[3] = "\"" /\ q[Len(q)] = "\""

RequestErrorIsFatal ==
    (op # "none" /\ ~Built) =>
        /\ pc = "done" /\ Sends = 0
        /\ result.err \in {RequestError, InvalidOperation}
        /\ result.err = InvalidOperation => (op = "SendPowerCommand" /\ CommandSuffix(cmd) = "")
        /\ result.entity \in {Nil, ZeroQueryResponse}
        /\ result.entity = ZeroQueryResponse => op \in QueryOps

\* C21 witness: CreateHost with the largest retry budget, whose request
\* could not be built, has returned the request error without a send.
RequestErrorIsFatalWitness ==
    /\ op = "CreateHost" /\ retryCount = MaxRetry /\ ~Built /\ pc = "done"
    /\ Sends = 0 /\ result = [err |-> RequestError, entity |-> Nil]

\* C22: the request sent by the organization data source carries
\* search = name="v" for the configured organization name v.
SearchesConfiguredName ==
    (op = "dataSourceForemanOrganizationRead" /\ Built) =>
        /\ req.method = "GET"
        /\ req.query = SearchQuery("name", entity.name)

\* C23: an Organization decoded from a server object by ReadOrganization
\* or QueryOrganization carries in its base-record Id the object's
\* top-level "id", and after a successful organization data-source read the
\* resource id is the id of the single matching organization.
OrganizationIdFromServer ==
    /\ (op = "ReadOrganization" /\ pc = "done" /\ result.err = NoErr) =>
          LET b == LastAttempt.exchange.body
          IN  Get(Members(b), "id").t = "num" =>
                  result.entity.ForemanObject.Id = Get(Members(b), "id").n
    /\ (op = "QueryOrganization" /\ pc = "done" /\ Built /\ result.err = NoErr) =>
          LET l == Elements(Get(LastAttempt.exchange.body.o, "results"))
          IN  \A i \in 1..Len(l) :
                  Get(Members(l[i]), "id").t = "num" =>
                      result.entity.Results[i].ForemanObject.Id = Get(Members(l[i]), "id").n
    /\ (op = "dataSourceForemanOrganizationRead" /\ pc = "done" /\ Built
           /\ result.err = NoErr) =>
          LET l == Elements(Get(LastAttempt.exchange.body.o, "results"))
          IN  Get(Members(l[1]), "id").t = "num" =>
                  resourceData.id = Itoa(Get(Members(l[1]), "id").n)

\* C24: in CreateHost, UpdateHost and SendPowerCommand every attempt
\* transmits the same request as the first attempt: the same method, the
\* same path and the same full JSON body.
SameRequestEveryAttempt ==
    op \in RetryOps =>
        \A i \in 1..Sends :
            /\ attempts[i].req.method = attempts[1].req.method
            /\ attempts[i].req.path = attempts[1].req.path
            /\ attempts[i].body = req.body

\* C25: the data-source read of an organization or a location never
\* indexes the result list out of range: for a response with subtotal 1
\* and an empty result list it returns an error.
NeverIndexesOutOfRange ==
    (op \in DataSourceOps /\ pc = "done") => result.err # IndexOutOfRange

\* C26: CreateCommonParameter, ReadCommonParameter and
\* UpdateCommonParameter leave the caller's entity unchanged and return no
\* entity when request construction or the send fails; the caller's entity
\* is written only after a successful send.
CallerWrittenOnlyOnSuccess ==
    op \in CommonParameterOps =>
        /\ pc = "sending" => caller = entity
        /\ (pc = "done" /\ result.err # NoErr) => (caller = entity /\ result.entity = Nil)
        /\ caller # entity => (pc = "done" /\ Sends = 1 /\ LastAttempt.ok /\ result.err = NoErr)

\* C26 witness: UpdateCommonParameter of a parameter with id 42 whose send
\* was answered with an object that does not decode has returned the error
\* and no entity, the caller's entity as it was.
CallerWrittenOnlyOnSuccessWitness ==
    /\ op = "UpdateCommonParameter" /\ pc = "done" /\ Sends = 1 /\ ~LastAttempt.ok
    /\ LastAttempt.exchange.status = "ok"
    /\ result.err # NoErr /\ result.entity = Nil
    /\ caller = entity /\ caller.ForemanObject.Id = 42

\* C27: a Host decoded from a server object whose name is
\* "<short>.<domain>" and whose domain_name is the non-empty "<domain>" has
\* the Name "<short>"; when domain_name is empty or the name does not
\* contain it, the decoded Name is the server's name.
FqdnStripped ==
    (codecOp = "DecodeHost" /\ ~codecOut.err) =>
        LET name   == StrField(Get(codecWire.o, "name"))
            domain == AsString(Get(codecWire.o, "domain_name"), <<>>)
            suffix == <<".">> \o domain
            fqdn   == /\ domain # <<>> /\ Len(name) > Len(suffix)
                      /\ SubSeq(name, Len(name) - Len(suffix) + 1, Len(name)) = suffix
        IN  /\ fqdn => codecOut.v.Name = SubSeq(name, 1, Len(name) - Len(suffix))
            /\ (domain = <<>> \/ ~Contains(name, domain)) => codecOut.v.Name = name

=============================================================================
